---- MODULE Spec2Model ----
(***************************************************************************)
(* Model of the meta_h reflection/serialization library.                   *)
(*                                                                         *)
(*   meta.h              builder-based engine: Node / Builder interfaces,  *)
(*                       from<T>() / to<T>() dispatchers, reifyFromYaml    *)
(*   yaml-only/meta_yaml.h   YAML-only engine: from<T>(), fromYaml         *)
(*                                                                         *)
(* A C++ type is a type descriptor (a record tagged by k), a parsed        *)
(* document is a tree of nodes, a C++ object is a TLA+ value shaped by its *)
(* type descriptor.  Each dispatcher function is an operator that takes    *)
(* the type, the target object and the node, and returns the               *)
(* ValidationResult together with the target as the call leaves it.        *)
(*                                                                         *)
(* Representation choices:                                                 *)
(*   - a scalar node carries its text, as in YAML; the coerced reads       *)
(*     asInt / asBool / asDouble parse that text;                          *)
(*   - a double is a fixed-point number of tenths (15 stands for 1.5);     *)
(*   - std::optional<T> is <<>> (no value) or <<v>>;                       *)
(*   - std::vector is a sequence, std::pair / std::tuple a tuple;          *)
(*   - std::map<std::string,V> is a sequence of <<key, value>> kept in key *)
(*     order (KeyRank), keys unique;                                       *)
(*   - a record object is a function from field name to field value.       *)
(***************************************************************************)
EXTENDS Integers, Sequences, FiniteSets, TLC

(***************************************************************************)
(* Bounds of the input universe.                                           *)
(***************************************************************************)
\* longest sequence node / vector drawn as an input
MaxSeqLen == 3
\* largest integer drawn as an input or recognised in a scalar's text
MaxInt == 2

(***************************************************************************)
(* Documents: the tree a Node gives access to.                             *)
(***************************************************************************)
NullNode == [k |-> "null"]
Scalar(s) == [k |-> "scalar", s |-> s]
SeqNode(items) == [k |-> "seq", items |-> items]
MapNode(ks, vs) == [k |-> "map", keys |-> ks, vals |-> vs]
\* the result of at(k) for a key the node does not have (nullptr in meta.h,
\* an undefined node in meta_yaml.h)
Absent == [k |-> "absent"]
\* a document text that the YAML parser rejects (YAML::Load throws)
Malformed == [k |-> "malformed"]
\* what() of the exception the parser throws on such a text
ParserWhat == "yaml-cpp: error at line 1, column 1: end of map not found"

(***************************************************************************)
(* Text of numbers.  IntText is operator<< / std::to_string on an int,     *)
(* DoubleText is operator<< on a double (no trailing ".0").                *)
(***************************************************************************)
IntText(i) == ToString(i)
DoubleText(d) ==
    IF d % 10 = 0 THEN ToString(d \div 10)
    ELSE ToString(d \div 10) \o "." \o ToString(d % 10)
\* the whitelists of example_white_attributes.cpp and the port its
\* bad_port document gives; a version is written in tenths
allowed_envs == <<"dev", "staging", "prod">>
allowed_ports == <<80, 443, 8080, 8443>>
allowed_versions == <<10, 15, 20, 25>>
bad_port == 9999
\* the integers a scalar's text is recognised as
IntRange == (0..MaxInt) \cup {allowed_ports[j] : j \in 1..Len(allowed_ports)}
                \cup {bad_port}
DoubleRange == 0..(10 * MaxInt + 9)
TrueTexts == {"true", "yes", "on", "y"}
FalseTexts == {"false", "no", "off", "n"}

(***************************************************************************)
(* Node interface (meta.h YamlNode, meta_yaml.h Node).  An optional        *)
(* return value is <<>> or <<v>>.                                          *)
(***************************************************************************)
asInt(n) ==
    IF n.k = "scalar" /\ \E i \in IntRange : IntText(i) = n.s
    THEN <<CHOOSE i \in IntRange : IntText(i) = n.s>>
    ELSE <<>>
asDouble(n) ==
    IF n.k = "scalar" /\ \E d \in DoubleRange : DoubleText(d) = n.s
    THEN <<CHOOSE d \in DoubleRange : DoubleText(d) = n.s>>
    ELSE <<>>
asBool(n) ==
    IF n.k = "scalar" /\ n.s \in TrueTexts THEN <<TRUE>>
    ELSE IF n.k = "scalar" /\ n.s \in FalseTexts THEN <<FALSE>>
    ELSE <<>>
asString(n) == IF n.k = "scalar" THEN <<n.s>> ELSE <<>>
isSequence(n) == n.k = "seq"
isMap(n) == n.k = "map"
isNull(n) == n.k = "null"
size(n) ==
    IF n.k = "seq" THEN Len(n.items)
    ELSE IF n.k = "map" THEN Len(n.keys)
    ELSE 0
\* at(size_t i), i counted from 0
atIndex(n, i) ==
    IF n.k = "seq" /\ i < Len(n.items) THEN n.items[i + 1] ELSE Absent
\* at(std::string k)
atKey(n, key) ==
    IF n.k = "map" /\ \E j \in 1..Len(n.keys) : n.keys[j] = key
    THEN n.vals[CHOOSE j \in 1..Len(n.keys) : n.keys[j] = key]
    ELSE Absent
keys(n) == IF n.k = "map" THEN n.keys ELSE <<>>

(***************************************************************************)
(* ValidationResult.                                                       *)
(***************************************************************************)
ValidationResult == [valid |-> TRUE, errors |-> <<>>]
\* addError without  valid = false
addErrorKeepsValid(r, fieldName, message) ==
    [valid |-> r.valid, errors |-> Append(r.errors, <<fieldName, message>>)]
addError(r, fieldName, message) ==
    [valid |-> FALSE, errors |-> Append(r.errors, <<fieldName, message>>)]

\* the loop  for (auto& [f, e] : sub.errors)
\*               result.addError(prefix + (f.empty() ? "" : "." + f), e);
RECURSIVE addPrefixed(_, _, _)
addPrefixed(r, prefix, errs) ==
    IF errs = <<>> THEN r
    ELSE addPrefixed(
            addError(r,
                     prefix \o (IF errs[1][1] = "" THEN "" ELSE "." \o errs[1][1]),
                     errs[1][2]),
            prefix, Tail(errs))

(***************************************************************************)
(* Type descriptors.                                                       *)
(***************************************************************************)
Required == "Required"
Optional == "Optional"
IntT == [k |-> "int"]
DoubleT == [k |-> "double"]
BoolT == [k |-> "bool"]
StringT == [k |-> "string"]
EnumT(mapping) == [k |-> "enum", mapping |-> mapping]
OptionalT(t) == [k |-> "optional", elem |-> t]
VectorT(t) == [k |-> "vector", elem |-> t]
MapT(t) == [k |-> "map", elem |-> t]
PairT(a, b) == [k |-> "pair", first |-> a, second |-> b]
TupleT(ts) == [k |-> "tuple", elems |-> ts]
\* Field: fieldName, requirement and the member's type
Field(name, req, t) == [fieldName |-> name, requirement |-> req, type |-> t]
\* Field(name): the parameter req takes its default, Requirement::Required
FieldFromName(name, t) == Field(name, Required, t)
StructT(fs) == [k |-> "struct", fields |-> fs]

(***************************************************************************)
(* field.h: a Field made by MakeField / field<&T::member>(name, attrs...)  *)
(* carries its                                                             *)
(* attributes, and its requirement follows from the member's type.         *)
(***************************************************************************)
MakeField(name, t, attrs) ==
    [fieldName |-> name,
     requirement |-> IF t.k = "optional" THEN Optional ELSE Required,
     type |-> t,
     attributes |-> attrs]

\* the attribute Whitelist<AllowedValues>; text(v) is what operator<< prints
Whitelist(AllowedValues, kind) ==
    [attr |-> "Whitelist", AllowedValues |-> AllowedValues, kind |-> kind]
AllowedText(kind, v) ==
    CASE kind = "int" -> IntText(v)
      [] kind = "double" -> DoubleText(v)
      [] OTHER -> v
RECURSIVE JoinAllowed(_, _, _)
JoinAllowed(kind, vs, first) ==
    IF vs = <<>> THEN ""
    ELSE (IF first THEN "" ELSE ", ") \o AllowedText(kind, vs[1])
            \o JoinAllowed(kind, Tail(vs), FALSE)
\* the attributes BoundsCheck<Min, Max> and StringLength<Min, Max>
BoundsCheck(Min, Max) == [attr |-> "BoundsCheck", Min |-> Min, Max |-> Max]
StringLength(Min, Max) == [attr |-> "StringLength", Min |-> Min, Max |-> Max]
\* std::to_string of an integer
SignedText(i) == IF i < 0 THEN "-" \o ToString(0 - i) ELSE ToString(i)
WhitelistAccepts(a, v) ==
    \E j \in 1..Len(a.AllowedValues) : a.AllowedValues[j] = v
BoundsCheckExclusive(a, v) == v <= a.Min \/ v >= a.Max
BoundsCheckRejects(a, v) == v < a.Min \/ v > a.Max
StringLengthRejects(a, v) == Len(v) < a.Min \/ Len(v) > a.Max
\* Attr::validate(value, error): <<>> when it returns true and leaves error
\* alone, else <<error>>, the message it assigns before returning false
validate(a, v) ==
    CASE a.attr = "Whitelist" ->
            IF WhitelistAccepts(a, v) THEN <<>>
            ELSE <<"Value not in whitelist: {"
                     \o JoinAllowed(a.kind, a.AllowedValues, TRUE) \o "}">>
      [] a.attr = "BoundsCheck" ->
            IF BoundsCheckRejects(a, v)
            THEN <<"Value " \o SignedText(v) \o " out of bounds ["
                     \o SignedText(a.Min) \o ", " \o SignedText(a.Max) \o "]">>
            ELSE <<>>
      [] a.attr = "StringLength" ->
            IF StringLengthRejects(a, v)
            THEN <<"String length " \o ToString(Len(v)) \o " out of bounds ["
                     \o ToString(a.Min) \o ", " \o ToString(a.Max) \o "]">>
            ELSE <<>>

\* enum Prop and the attributes that carry a value or a column name
None == 0
PrimaryKey == 1
Serializable == 16
Props(v) == [attr |-> "Props", value |-> v]
Description(v) == [attr |-> "Description", value |-> v]
CsvColumn(name) == [attr |-> "CsvColumn", name |-> name]
SqlColumn(name) == [attr |-> "SqlColumn", name |-> name]
JsonColumn(name) == [attr |-> "JsonColumn", name |-> name]
\* std::get<Attr>(attributes): the element of the tuple of that type
GetAttr(f, Attr) ==
    f.attributes[CHOOSE j \in 1..Len(f.attributes) : f.attributes[j].attr = Attr]
hasAttribute(f, Attr) ==
    \E j \in 1..Len(f.attributes) : f.attributes[j].attr = Attr
\* a pointer is <<>> (nullptr) or <<the attribute>>
getAttribute(f, Attr) ==
    IF hasAttribute(f, Attr) THEN <<GetAttr(f, Attr)>> ELSE <<>>
getProps(f) ==
    IF hasAttribute(f, "Props") THEN GetAttr(f, "Props").value ELSE None
\* getSqlColumn ignoring an attached SqlColumn
getSqlColumnPlainName(f) == f.fieldName
getSqlColumn(f) ==
    IF hasAttribute(f, "SqlColumn") THEN GetAttr(f, "SqlColumn").name
    ELSE f.fieldName
getCsvColumn(f) ==
    IF hasAttribute(f, "CsvColumn") THEN GetAttr(f, "CsvColumn").name
    ELSE f.fieldName
getJsonProperty(f) ==
    IF hasAttribute(f, "JsonColumn") THEN GetAttr(f, "JsonColumn").name
    ELSE f.fieldName

(***************************************************************************)
(* Enum registry (EnumTraitsAuto).  mapping is the declared array of       *)
(* <<value, name>> pairs; both tables are filled in array order with       *)
(* m[key] = ..., so the last pair with a given key wins.                   *)
(***************************************************************************)
LastIndex(mapping, col, x) ==
    LET hits == {j \in 1..Len(mapping) : mapping[j][col] = x}
    IN  IF hits = {} THEN 0 ELSE CHOOSE j \in hits : \A h \in hits : h <= j
toString(mapping, e) ==
    LET j == LastIndex(mapping, 1, e) IN IF j = 0 THEN "" ELSE mapping[j][2]
fromStringFirst(mapping, s) ==
    IF \E j \in 1..Len(mapping) : mapping[j][2] = s THEN <<mapping[1][1]>>
    ELSE <<>>
fromString(mapping, s) ==
    LET j == LastIndex(mapping, 2, s) IN IF j = 0 THEN <<>> ELSE <<mapping[j][1]>>
\* enumValues<E>(): forEach walks the mapping array and pushes each value
enumValues(mapping) == [j \in 1..Len(mapping) |-> mapping[j][1]]

\* the order in which a range-for walks the buckets of the unordered_map
\* stringToEnum, as a permutation of the positions of the mapping array; the
\* standard library does not specify it, so it is any permutation
VARIABLE bucketOrder
Perms(n) == {p \in [1..n -> 1..n] : \A i, j \in 1..n : i # j => p[i] # p[j]}

(***************************************************************************)
(* std::map<std::string, V>: keys are ordered by their rank in KeyOrder.   *)
(***************************************************************************)
KeyOrder == <<"a", "b", "c">>
KeyRank(key) == CHOOSE j \in 1..Len(KeyOrder) : KeyOrder[j] = key
RECURSIVE MapPut(_, _, _)
\* obj[key] = v
MapPut(m, key, v) ==
    IF m = <<>> THEN <<<<key, v>>>>
    ELSE IF m[1][1] = key THEN <<<<key, v>>>> \o Tail(m)
    ELSE IF KeyRank(key) < KeyRank(m[1][1]) THEN <<<<key, v>>>> \o m
    ELSE <<m[1]>> \o MapPut(Tail(m), key, v)

(***************************************************************************)
(* T obj{}: the value-initialised object of a type.                        *)
(***************************************************************************)
RECURSIVE Default(_)
Default(T) ==
    CASE T.k = "int" -> 0
      [] T.k = "double" -> 0
      [] T.k = "bool" -> FALSE
      [] T.k = "string" -> ""
      [] T.k = "enum" -> 0
      [] T.k = "optional" -> <<>>
      [] T.k = "vector" -> <<>>
      [] T.k = "map" -> <<>>
      [] T.k = "pair" -> <<Default(T.first), Default(T.second)>>
      [] T.k = "tuple" -> [j \in 1..Len(T.elems) |-> Default(T.elems[j])]
      [] T.k = "struct" ->
            [name \in {T.fields[j].fieldName : j \in 1..Len(T.fields)} |->
                Default(T.fields[CHOOSE j \in 1..Len(T.fields) :
                                    T.fields[j].fieldName = name].type)]

\* what a dispatcher call hands back: its ValidationResult and the target
Ret(r, o) == [res |-> r, obj |-> o]

(***************************************************************************)
(* Deserialization dispatcher of meta.h.                                   *)
(***************************************************************************)
RECURSIVE from(_, _, _)
RECURSIVE fromVectorLoop(_, _, _, _, _)
RECURSIVE fromMapLoop(_, _, _, _, _)
RECURSIVE fromTupleElements(_, _, _, _, _)
RECURSIVE fromStructFields(_, _, _, _, _)

\* from(int&)
fromInt(obj, node) ==
    LET v == asInt(node)
    IN  IF v = <<>> THEN Ret(addError(ValidationResult, "", "Invalid integer"), obj)
        ELSE Ret(ValidationResult, v[1])

\* from(double&): reads the node with asInt and reports nothing
fromDouble(obj, node) ==
    LET v == asInt(node)
    IN  Ret(ValidationResult, IF v # <<>> THEN 10 * v[1] ELSE obj)

\* from(std::string&)
fromStdString(obj, node) ==
    LET v == asString(node)
    IN  IF v = <<>> THEN Ret(addError(ValidationResult, "", "Invalid string"), obj)
        ELSE Ret(ValidationResult, v[1])

\* from(bool&)
fromBool(obj, node) ==
    LET v == asBool(node)
    IN  IF v = <<>> THEN Ret(addError(ValidationResult, "", "Invalid boolean"), obj)
        ELSE Ret(ValidationResult, v[1])

\* from(EnumT&)
fromEnum(T, obj, node) ==
    LET s == asString(node)
    IN  IF s = <<>> THEN Ret(addError(ValidationResult, "", "Invalid enum"), obj)
        ELSE LET e == fromString(T.mapping, s[1])
             IN  IF e = <<>>
                 THEN Ret(addError(ValidationResult, "", "Unknown enum value: " \o s[1]), obj)
                 ELSE Ret(ValidationResult, e[1])

fromPair(T, obj, node) ==
    IF ~isSequence(node) \/ size(node) # 2
    THEN Ret(addError(ValidationResult, "",
                      "Expected sequence of 2 elements, got size=" \o IntText(size(node))),
             obj)
    ELSE LET kNode == atIndex(node, 0)
             vNode == atIndex(node, 1)
         IN  IF kNode = Absent \/ vNode = Absent
             THEN Ret(addError(ValidationResult, "", "Failed to get pair elements"), obj)
             ELSE LET kResult == from(T.first, obj[1], kNode)
                      vResult == from(T.second, obj[2], vNode)
                      r1 == IF ~kResult.res.valid
                            THEN addPrefixed(ValidationResult, "[0]", kResult.res.errors)
                            ELSE ValidationResult
                      r2 == IF ~vResult.res.valid
                            THEN addPrefixed(r1, "[1]", vResult.res.errors)
                            ELSE r1
                      r3 == IF kResult.res.valid /\ vResult.res.valid
                            THEN [valid |-> TRUE, errors |-> <<>>]
                            ELSE r2
                  IN  Ret(r3, <<kResult.obj, vResult.obj>>)

\* fromVector's loop leaving at the first element that fails
fromVectorLoopStopsAtFailure(T, node, i, result, out) ==
    IF ~(i < size(node)) THEN Ret(result, out)
    ELSE LET elemResult == from(T.elem, Default(T.elem), atIndex(node, i))
         IN  IF ~elemResult.res.valid
             THEN Ret(addPrefixed(result, "[" \o IntText(i) \o "]",
                                  elemResult.res.errors), out)
             ELSE fromVectorLoop(T, node, i + 1, result, Append(out, elemResult.obj))

\* the body of the loop over i in fromVector, from index i on
fromVectorLoop(T, node, i, result, out) ==
    IF ~(i < size(node)) THEN Ret(result, out)
    ELSE LET elemResult == from(T.elem, Default(T.elem), atIndex(node, i))
         IN  IF ~elemResult.res.valid
             THEN fromVectorLoop(T, node, i + 1,
                     addPrefixed(result, "[" \o IntText(i) \o "]", elemResult.res.errors),
                     out)
             ELSE fromVectorLoop(T, node, i + 1, result, Append(out, elemResult.obj))

fromVector(T, obj, node) ==
    IF ~isSequence(node)
    THEN Ret(addError(ValidationResult, "", "Expected sequence"), obj)
    ELSE fromVectorLoop(T, node, 0, ValidationResult, <<>>)

\* fromMap's loop leaving at the first key whose value fails
fromMapLoopStopsAtFailure(T, node, ks, result, out) ==
    IF ks = <<>> THEN Ret(result, out)
    ELSE LET key == Head(ks)
             vNode == atKey(node, key)
         IN  IF vNode = Absent THEN fromMapLoop(T, node, Tail(ks), result, out)
             ELSE LET vResult == from(T.elem, Default(T.elem), vNode)
                  IN  IF ~vResult.res.valid
                      THEN Ret(addPrefixed(result, key, vResult.res.errors), out)
                      ELSE fromMapLoop(T, node, Tail(ks), result,
                                       MapPut(out, key, vResult.obj))

\* the body of the loop over keys() in fromMap; ks is what is left of keys()
fromMapLoop(T, node, ks, result, out) ==
    IF ks = <<>> THEN Ret(result, out)
    ELSE LET key == Head(ks)
             vNode == atKey(node, key)
         IN  IF vNode = Absent THEN fromMapLoop(T, node, Tail(ks), result, out)
             ELSE LET vResult == from(T.elem, Default(T.elem), vNode)
                  IN  IF ~vResult.res.valid
                      THEN fromMapLoop(T, node, Tail(ks),
                              addPrefixed(result, key, vResult.res.errors), out)
                      ELSE fromMapLoop(T, node, Tail(ks), result,
                                       MapPut(out, key, vResult.obj))

fromMap(T, obj, node) ==
    IF ~isMap(node)
    THEN Ret(addError(ValidationResult, "", "Expected map"), obj)
    ELSE fromMapLoop(T, node, keys(node), ValidationResult, <<>>)

\* fromOptional assigning v whether or not the wrapped read succeeded
fromOptionalStoresOnFailure(T, obj, node) ==
    IF isNull(node) THEN Ret(ValidationResult, <<>>)
    ELSE LET result == from(T.elem, Default(T.elem), node)
         IN  Ret(result.res, <<result.obj>>)

fromOptional(T, obj, node) ==
    IF isNull(node) THEN Ret(ValidationResult, <<>>)
    ELSE LET result == from(T.elem, Default(T.elem), node)
         IN  IF result.res.valid THEN Ret(result.res, <<result.obj>>)
             ELSE Ret(result.res, obj)

\* fromTupleElements giving up at the first position that fails
fromTupleElementsStopsAtFailure(T, obj, node, I, result) ==
    IF ~(I < Len(T.elems)) \/ ~result.valid THEN Ret(result, obj)
    ELSE LET elemNode == atIndex(node, I)
         IN  IF elemNode # Absent
             THEN LET elemResult == from(T.elems[I + 1], obj[I + 1], elemNode)
                      r == IF ~elemResult.res.valid
                           THEN addPrefixed(result, "[" \o IntText(I) \o "]",
                                            elemResult.res.errors)
                           ELSE result
                  IN  fromTupleElements(T, [obj EXCEPT ![I + 1] = elemResult.obj],
                                        node, I + 1, r)
             ELSE fromTupleElements(T, obj, node, I + 1,
                     addError(result, "[" \o IntText(I) \o "]", "Failed to get element"))

\* fromTupleElements<I, Args...>, I counted from 0
fromTupleElements(T, obj, node, I, result) ==
    IF ~(I < Len(T.elems)) THEN Ret(result, obj)
    ELSE LET elemNode == atIndex(node, I)
         IN  IF elemNode # Absent
             THEN LET elemResult == from(T.elems[I + 1], obj[I + 1], elemNode)
                      r == IF ~elemResult.res.valid
                           THEN addPrefixed(result, "[" \o IntText(I) \o "]",
                                            elemResult.res.errors)
                           ELSE result
                  IN  fromTupleElements(T, [obj EXCEPT ![I + 1] = elemResult.obj],
                                        node, I + 1, r)
             ELSE fromTupleElements(T, obj, node, I + 1,
                     addError(result, "[" \o IntText(I) \o "]", "Failed to get element"))

fromTuple(T, obj, node) ==
    IF ~isSequence(node) \/ size(node) # Len(T.elems)
    THEN Ret(addError(ValidationResult, "",
                      "Expected sequence of " \o IntText(Len(T.elems))
                          \o " elements, got " \o IntText(size(node))),
             obj)
    ELSE LET r == fromTupleElements(T, obj, node, 0, ValidationResult)
         IN  Ret(IF r.res.errors = <<>> THEN [r.res EXCEPT !.valid = TRUE] ELSE r.res,
                 r.obj)

\* what fromStruct does with a field whose key is there
ReadField(T, obj, node, i, result) ==
    LET field == T.fields[i]
        fieldResult == from(field.type, obj[field.fieldName],
                            atKey(node, field.fieldName))
        r == IF ~fieldResult.res.valid
             THEN addPrefixed(result, field.fieldName, fieldResult.res.errors)
             ELSE result
    IN  fromStructFields(T, [obj EXCEPT ![field.fieldName] = fieldResult.obj],
                         node, i + 1, r)

\* fromStruct passing over a field that is not there, whatever its requirement
fromStructFieldsSkipsMissing(T, obj, node, i, result) ==
    IF i > Len(T.fields) THEN Ret(result, obj)
    ELSE IF atKey(node, T.fields[i].fieldName) = Absent
         THEN fromStructFields(T, obj, node, i + 1, result)
         ELSE ReadField(T, obj, node, i, result)

\* fromStruct reporting every field that is not there, whatever its requirement
fromStructFieldsAllRequired(T, obj, node, i, result) ==
    IF i > Len(T.fields) THEN Ret(result, obj)
    ELSE IF atKey(node, T.fields[i].fieldName) = Absent
         THEN fromStructFields(T, obj, node, i + 1,
                 addError(result, T.fields[i].fieldName, "Missing required field"))
         ELSE ReadField(T, obj, node, i, result)

\* fromStruct returning as soon as one field has failed
fromStructFieldsStopsAtFirstError(T, obj, node, i, result) ==
    IF i > Len(T.fields) \/ ~result.valid THEN Ret(result, obj)
    ELSE IF atKey(node, T.fields[i].fieldName) = Absent
         THEN fromStructFields(T, obj, node, i + 1,
                 IF T.fields[i].requirement = Required
                 THEN addError(result, T.fields[i].fieldName, "Missing required field")
                 ELSE result)
         ELSE ReadField(T, obj, node, i, result)

\* the fold over T::fields in fromStruct, from field number i (from 1) on
fromStructFields(T, obj, node, i, result) ==
    IF i > Len(T.fields) THEN Ret(result, obj)
    ELSE LET field == T.fields[i]
             fieldNode == atKey(node, field.fieldName)
         IN  IF fieldNode = Absent
             THEN fromStructFields(T, obj, node, i + 1,
                     IF field.requirement = Required
                     THEN addError(result, field.fieldName, "Missing required field")
                     ELSE result)
             ELSE ReadField(T, obj, node, i, result)

fromStruct(T, obj, node) == fromStructFields(T, obj, node, 1, ValidationResult)

\* overload resolution of from(T&, Node*)
from(T, obj, node) ==
    CASE T.k = "int" -> fromInt(obj, node)
      [] T.k = "double" -> fromDouble(obj, node)
      [] T.k = "string" -> fromStdString(obj, node)
      [] T.k = "bool" -> fromBool(obj, node)
      [] T.k = "enum" -> fromEnum(T, obj, node)
      [] T.k = "pair" -> fromPair(T, obj, node)
      [] T.k = "vector" -> fromVector(T, obj, node)
      [] T.k = "map" -> fromMap(T, obj, node)
      [] T.k = "optional" -> fromOptional(T, obj, node)
      [] T.k = "tuple" -> fromTuple(T, obj, node)
      [] T.k = "struct" -> fromStruct(T, obj, node)

\* reifyFromYaml handing the object back whatever the result
reifyFromYamlAlwaysValue(T, doc) ==
    IF doc = Malformed
    THEN [value |-> <<>>, res |-> addError(ValidationResult, "yaml", ParserWhat)]
    ELSE LET r == from(T, Default(T), doc)
         IN  [value |-> <<r.obj>>, res |-> r.res]

\* reifyFromYaml whose catch block forgets to record the error
reifyFromYamlEmptyCatch(T, doc) ==
    IF doc = Malformed
    THEN [value |-> <<>>, res |-> ValidationResult]
    ELSE LET r == from(T, Default(T), doc)
         IN  IF r.res.valid THEN [value |-> <<r.obj>>, res |-> r.res]
             ELSE [value |-> <<>>, res |-> r.res]

\* reifyFromYaml<T>: what the call returns, value is <<>> or <<obj>>
reifyFromYaml(T, doc) ==
    IF doc = Malformed
    THEN [value |-> <<>>, res |-> addError(ValidationResult, "yaml", ParserWhat)]
    ELSE LET r == from(T, Default(T), doc)
         IN  IF r.res.valid THEN [value |-> <<r.obj>>, res |-> r.res]
             ELSE [value |-> <<>>, res |-> r.res]

(***************************************************************************)
(* Deserialization of yaml-only/meta_yaml.h.  from(int&), from(string&)    *)
(* and from(bool&) read as in meta.h; the functions that differ are        *)
(* modelled again under a name that starts with y.                         *)
(***************************************************************************)
RECURSIVE yFrom(_, _, _)
RECURSIVE yFromVectorLoop(_, _, _, _, _)
RECURSIVE yFromMapLoop(_, _, _, _, _)
RECURSIVE yFromTupleElements(_, _, _, _, _)
RECURSIVE yFromStructFields(_, _, _, _, _)
RECURSIVE JoinQuoted(_, _)

\* Node::isNull() of meta_yaml.h, also asked of the node at(k) returns for
\* a key that is not there
yIsNull(n) == n.k = "null" \/ n.k = "absent"

\* "'a', 'b', 'c'" over the names left in mapping, first tells whether a
\* separator is due
JoinQuoted(mapping, first) ==
    IF mapping = <<>> THEN ""
    ELSE (IF first THEN "" ELSE ", ") \o "'" \o mapping[1][2] \o "'"
            \o JoinQuoted(Tail(mapping), FALSE)
\* EnumTraitsAuto::getValidValues: one entry per key of stringToEnum (a name
\* declared twice is one key), walked in bucket order
getValidValues(mapping) ==
    LET idx == SelectSeq(bucketOrder,
                         LAMBDA j : j <= Len(mapping)
                                    /\ LastIndex(mapping, 2, mapping[j][2]) = j)
    IN  JoinQuoted([x \in 1..Len(idx) |-> mapping[idx[x]]], TRUE)

\* from(double&)
yFromDouble(obj, node) ==
    LET d == asDouble(node)
        i == asInt(node)
    IN  IF d # <<>> THEN Ret(ValidationResult, d[1])
        ELSE IF i # <<>> THEN Ret(ValidationResult, 10 * i[1])
        ELSE Ret(addError(ValidationResult, "", "Invalid double"), obj)

\* from(EnumT&) reporting the rejected string without the valid values
yFromEnumWithoutValidValues(T, obj, node) ==
    LET s == asString(node)
    IN  IF s = <<>>
        THEN Ret(addError(ValidationResult, "",
                    "Invalid enum. Valid values are: " \o getValidValues(T.mapping)), obj)
        ELSE LET e == fromString(T.mapping, s[1])
             IN  IF e = <<>>
                 THEN Ret(addError(ValidationResult, "",
                            "Unknown enum value '" \o s[1] \o "'."), obj)
                 ELSE Ret(ValidationResult, e[1])

\* from(EnumT&)
yFromEnum(T, obj, node) ==
    LET s == asString(node)
    IN  IF s = <<>>
        THEN Ret(addError(ValidationResult, "",
                    "Invalid enum. Valid values are: " \o getValidValues(T.mapping)), obj)
        ELSE LET e == fromString(T.mapping, s[1])
             IN  IF e = <<>>
                 THEN Ret(addError(ValidationResult, "",
                            "Unknown enum value '" \o s[1] \o "'. Valid values are: "
                                \o getValidValues(T.mapping)), obj)
                 ELSE Ret(ValidationResult, e[1])

\* from(std::vector<T>&)
yFromVectorLoop(T, node, i, result, out) ==
    IF ~(i < size(node)) THEN Ret(result, out)
    ELSE LET elemResult == yFrom(T.elem, Default(T.elem), atIndex(node, i))
         IN  IF ~elemResult.res.valid
             THEN yFromVectorLoop(T, node, i + 1,
                     addPrefixed(result, "[" \o IntText(i) \o "]", elemResult.res.errors),
                     out)
             ELSE yFromVectorLoop(T, node, i + 1, result, Append(out, elemResult.obj))

yFromVector(T, obj, node) ==
    IF ~isSequence(node)
    THEN Ret(addError(ValidationResult, "", "Expected sequence"), obj)
    ELSE yFromVectorLoop(T, node, 0, ValidationResult, <<>>)

\* from(std::map<K,V>&)
yFromMapLoop(T, node, ks, result, out) ==
    IF ks = <<>> THEN Ret(result, out)
    ELSE LET key == Head(ks)
             vResult == yFrom(T.elem, Default(T.elem), atKey(node, key))
         IN  IF ~vResult.res.valid
             THEN yFromMapLoop(T, node, Tail(ks),
                     addPrefixed(result, key, vResult.res.errors), out)
             ELSE yFromMapLoop(T, node, Tail(ks), result, MapPut(out, key, vResult.obj))

yFromMap(T, obj, node) ==
    IF ~isMap(node)
    THEN Ret(addError(ValidationResult, "", "Expected map"), obj)
    ELSE yFromMapLoop(T, node, keys(node), ValidationResult, <<>>)

\* from(std::optional<T>&)
yFromOptional(T, obj, node) ==
    IF yIsNull(node) THEN Ret(ValidationResult, <<>>)
    ELSE LET result == yFrom(T.elem, Default(T.elem), node)
         IN  IF result.res.valid THEN Ret(result.res, <<result.obj>>)
             ELSE Ret(result.res, obj)

\* from(std::pair<K,V>&)
yFromPair(T, obj, node) ==
    IF ~isSequence(node) \/ size(node) # 2
    THEN Ret(addError(ValidationResult, "", "Expected sequence of 2 elements"), obj)
    ELSE LET kResult == yFrom(T.first, obj[1], atIndex(node, 0))
             vResult == yFrom(T.second, obj[2], atIndex(node, 1))
             r1 == IF ~kResult.res.valid THEN kResult.res ELSE ValidationResult
             r2 == IF ~vResult.res.valid THEN vResult.res ELSE r1
         IN  Ret(r2, <<kResult.obj, vResult.obj>>)

\* the fold over the tuple's elements in from(std::tuple<Args...>&), i from 0
yFromTupleElements(T, obj, node, i, result) ==
    IF ~(i < Len(T.elems)) THEN Ret(result, obj)
    ELSE LET elemResult == yFrom(T.elems[i + 1], obj[i + 1], atIndex(node, i))
             r == IF ~elemResult.res.valid
                  THEN addPrefixed(result, "[" \o IntText(i) \o "]", elemResult.res.errors)
                  ELSE result
         IN  yFromTupleElements(T, [obj EXCEPT ![i + 1] = elemResult.obj], node, i + 1, r)

yFromTuple(T, obj, node) ==
    IF ~isSequence(node) \/ size(node) # Len(T.elems)
    THEN Ret(addError(ValidationResult, "", "Expected sequence"), obj)
    ELSE yFromTupleElements(T, obj, node, 0, ValidationResult)

\* the fold over T::fields in from<T> for a record, from field number i on
yFromStructFields(T, obj, node, i, result) ==
    IF i > Len(T.fields) THEN Ret(result, obj)
    ELSE LET field == T.fields[i]
             fieldNode == atKey(node, field.fieldName)
         IN  IF yIsNull(fieldNode)
             THEN yFromStructFields(T, obj, node, i + 1,
                     IF field.requirement = Required
                     THEN addError(result, field.fieldName, "Missing required field")
                     ELSE result)
             ELSE LET fieldResult == yFrom(field.type, obj[field.fieldName], fieldNode)
                      r == IF ~fieldResult.res.valid
                           THEN addPrefixed(result, field.fieldName, fieldResult.res.errors)
                           ELSE result
                  IN  yFromStructFields(T,
                          [obj EXCEPT ![field.fieldName] = fieldResult.obj],
                          node, i + 1, r)

yFromStruct(T, obj, node) == yFromStructFields(T, obj, node, 1, ValidationResult)

\* overload resolution of from(T&, const Node&)
yFrom(T, obj, node) ==
    CASE T.k = "int" -> fromInt(obj, node)
      [] T.k = "double" -> yFromDouble(obj, node)
      [] T.k = "string" -> fromStdString(obj, node)
      [] T.k = "bool" -> fromBool(obj, node)
      [] T.k = "enum" -> yFromEnum(T, obj, node)
      [] T.k = "pair" -> yFromPair(T, obj, node)
      [] T.k = "vector" -> yFromVector(T, obj, node)
      [] T.k = "map" -> yFromMap(T, obj, node)
      [] T.k = "optional" -> yFromOptional(T, obj, node)
      [] T.k = "tuple" -> yFromTuple(T, obj, node)
      [] T.k = "struct" -> yFromStruct(T, obj, node)

\* fromYaml<T>
fromYaml(T, doc) ==
    IF doc = Malformed
    THEN [value |-> <<>>, res |-> addError(ValidationResult, "yaml", ParserWhat)]
    ELSE LET r == yFrom(T, Default(T), doc)
         IN  IF r.res.valid THEN [value |-> <<r.obj>>, res |-> r.res]
             ELSE [value |-> <<>>, res |-> r.res]

(***************************************************************************)
(* Serialization dispatcher of meta.h: to(obj, b) as the sequence of       *)
(* Builder calls it issues.                                                *)
(***************************************************************************)
Call(op, arg) == [op |-> op, arg |-> arg]
RECURSIVE to(_, _)
RECURSIVE toElements(_, _)
RECURSIVE toEntries(_, _)
RECURSIVE toFields(_, _, _)
RECURSIVE toTupleElements(_, _, _)

\* for (const auto& e : v) to(e, b);
toElements(T, v) ==
    IF v = <<>> THEN <<>> ELSE to(T.elem, Head(v)) \o toElements(T, Tail(v))

toVector(T, v) ==
    <<Call("startSeq", T.elem.k)>> \o toElements(T, v) \o <<Call("endSeq", "")>>

\* for (const auto& [k, v] : m) { b->key(k); to(v, b); }
toEntries(T, m) ==
    IF m = <<>> THEN <<>>
    ELSE <<Call("key", m[1][1])>> \o to(T.elem, m[1][2]) \o toEntries(T, Tail(m))

toMap(T, m) ==
    <<Call("startMap", T.elem.k)>> \o toEntries(T, m) \o <<Call("endMap", "")>>

\* toOptional writing nothing for an optional without a value
toOptionalWritesNothing(T, opt) ==
    IF opt # <<>> THEN to(T.elem, opt[1]) ELSE <<>>
toOptional(T, opt) ==
    IF opt # <<>> THEN to(T.elem, opt[1]) ELSE <<Call("writeString", "null")>>

toPair(T, p) ==
    <<Call("startFlowSeq", "")>> \o to(T.first, p[1]) \o to(T.second, p[2])
        \o <<Call("endFlowSeq", "")>>

toTupleElements(T, tup, i) ==
    IF i > Len(T.elems) THEN <<>>
    ELSE to(T.elems[i], tup[i]) \o toTupleElements(T, tup, i + 1)

toTuple(T, tup) ==
    <<Call("startFlowSeq", "")>> \o toTupleElements(T, tup, 1)
        \o <<Call("endFlowSeq", "")>>

\* to<T> leaving out a member that is an optional without a value
toFieldsSkipsEmptyOptional(T, obj, i) ==
    IF i > Len(T.fields) THEN <<>>
    ELSE IF T.fields[i].type.k = "optional" /\ obj[T.fields[i].fieldName] = <<>>
         THEN toFields(T, obj, i + 1)
         ELSE <<Call("key", T.fields[i].fieldName)>>
                 \o to(T.fields[i].type, obj[T.fields[i].fieldName])
                 \o toFields(T, obj, i + 1)

\* the fold over T::fields in to<T>, from field number i on
toFields(T, obj, i) ==
    IF i > Len(T.fields) THEN <<>>
    ELSE <<Call("key", T.fields[i].fieldName)>>
            \o to(T.fields[i].type, obj[T.fields[i].fieldName])
            \o toFields(T, obj, i + 1)

toStruct(T, obj) ==
    <<Call("startMap", "")>> \o toFields(T, obj, 1) \o <<Call("endMap", "")>>

to(T, obj) ==
    CASE T.k = "int" -> <<Call("writeInt", obj)>>
      [] T.k = "double" -> <<Call("writeDouble", obj)>>
      [] T.k = "bool" -> <<Call("writeBool", obj)>>
      [] T.k = "string" -> <<Call("writeString", obj)>>
      [] T.k = "enum" -> <<Call("writeString", toString(T.mapping, obj))>>
      [] T.k = "vector" -> toVector(T, obj)
      [] T.k = "map" -> toMap(T, obj)
      [] T.k = "optional" -> toOptional(T, obj)
      [] T.k = "pair" -> toPair(T, obj)
      [] T.k = "tuple" -> toTuple(T, obj)
      [] T.k = "struct" -> toStruct(T, obj)

(***************************************************************************)
(* The tree a sequence of Builder calls describes: every write is a scalar *)
(* with the text the builders print for it, startMap..endMap a map whose   *)
(* keys are the key() calls, startSeq..endSeq and startFlowSeq..endFlowSeq *)
(* a sequence.  A plain scalar null, ~ or the empty text reads back as the *)
(* null node.                                                              *)
(***************************************************************************)
ScalarText(c) ==
    CASE c.op = "writeInt" -> IntText(c.arg)
      [] c.op = "writeDouble" -> DoubleText(c.arg)
      [] c.op = "writeBool" -> (IF c.arg THEN "true" ELSE "false")
      [] c.op = "writeString" -> c.arg
ScalarNode(text) == IF text \in {"null", "~", ""} THEN NullNode ELSE Scalar(text)

Frame(kind) == [kind |-> kind, keys |-> <<>>, items |-> <<>>]
\* hand a finished node to the innermost open container
Attach(stack, n) ==
    [stack EXCEPT ![Len(stack)].items = Append(@, n)]
FrameNode(f) ==
    IF f.kind = "map" THEN MapNode(f.keys, f.items) ELSE SeqNode(f.items)

RECURSIVE BuildTree(_, _)
BuildTree(calls, stack) ==
    IF calls = <<>> THEN stack
    ELSE LET c == Head(calls)
         IN  CASE c.op \in {"writeInt", "writeDouble", "writeBool", "writeString"} ->
                    BuildTree(Tail(calls), Attach(stack, ScalarNode(ScalarText(c))))
               [] c.op = "startMap" ->
                    BuildTree(Tail(calls), Append(stack, Frame("map")))
               [] c.op \in {"startSeq", "startFlowSeq"} ->
                    BuildTree(Tail(calls), Append(stack, Frame("seq")))
               [] c.op = "key" ->
                    BuildTree(Tail(calls),
                              [stack EXCEPT ![Len(stack)].keys = Append(@, c.arg)])
               [] c.op \in {"endMap", "endSeq", "endFlowSeq"} ->
                    BuildTree(Tail(calls),
                              Attach(SubSeq(stack, 1, Len(stack) - 1),
                                     FrameNode(stack[Len(stack)])))
TreeOf(calls) == BuildTree(calls, <<Frame("root")>>)[1].items[1]

(***************************************************************************)
(* Input universe: the registered types (taken from the example programs), *)
(* the documents parsed into them and the objects rendered from them.      *)
(***************************************************************************)
\* longest vector drawn as an object to render
MaxVecLen == 2

\* enum class Color with ColorMapping (example_exhaust.cpp)
Color == EnumT(<<<<0, "red">>, <<1, "green">>, <<2, "blue">>>>)
\* struct Paint (yaml-only/test_enum_errors.cpp)
Paint ==
    StructT(<<Field("name", Required, StringT),
              Field("color", Required, Color)>>)
\* struct Config (example_white_attributes.cpp)
Config ==
    StructT(<<MakeField("environment", StringT, <<Whitelist(allowed_envs, "string")>>),
              MakeField("port", IntT, <<Whitelist(allowed_ports, "int")>>),
              MakeField("version", DoubleT, <<Whitelist(allowed_versions, "double")>>)>>)
\* a record none of whose members is required: the members optional_nickname
\* and optional_age of OptionalFields (example_exhaust.cpp) on their own
Optionals ==
    StructT(<<Field("optional_nickname", Optional, OptionalT(StringT)),
              Field("optional_age", Optional, OptionalT(IntT))>>)
\* struct User (example_test_validation.cpp)
User ==
    StructT(<<Field("id", Required, IntT),
              Field("name", Required, StringT),
              Field("email", Required, StringT)>>)
\* struct Address, struct Company (example_test_nested_optional.cpp)
Address ==
    StructT(<<Field("city", Required, StringT),
              Field("state", Optional, OptionalT(StringT)),
              Field("country", Required, StringT)>>)
Company ==
    StructT(<<Field("name", Required, StringT),
              Field("offices", Required, VectorT(Address))>>)
\* struct Primitives (example_exhaust.cpp)
Primitives ==
    StructT(<<Field("flag", Required, BoolT),
              Field("int_val", Required, IntT),
              Field("double_val", Required, DoubleT),
              Field("text", Required, StringT)>>)

Types ==
    {IntT, DoubleT, BoolT, StringT, Color,
     OptionalT(IntT), OptionalT(StringT), VectorT(IntT), MapT(IntT),
     MapT(Address),
     PairT(IntT, BoolT), TupleT(<<IntT, BoolT, StringT>>),
     User, Address, VectorT(Address), Company, Primitives, Paint, Config,
     Optionals}

\* whether reading T consults an enum registry
RECURSIVE MentionsEnum(_)
MentionsEnum(R) ==
    CASE R.k = "enum" -> TRUE
      [] R.k \in {"optional", "vector", "map"} -> MentionsEnum(R.elem)
      [] R.k = "pair" -> MentionsEnum(R.first) \/ MentionsEnum(R.second)
      [] R.k = "tuple" -> \E j \in 1..Len(R.elems) : MentionsEnum(R.elems[j])
      [] R.k = "struct" -> \E j \in 1..Len(R.fields) : MentionsEnum(R.fields[j].type)
      [] OTHER -> FALSE

RECURSIVE Good(_)
RECURSIVE Few(_)
RECURSIVE Docs(_)
RECURSIVE RecordDocs(_)
RECURSIVE ValsUpTo(_, _)
RECURSIVE RecordValsUpTo(_, _)

\* a document that reads into T without error
Good(T) ==
    CASE T.k = "int" -> Scalar("1")
      [] T.k = "double" -> Scalar("1.5")
      [] T.k = "bool" -> Scalar("true")
      [] T.k = "string" -> Scalar("abc")
      [] T.k = "enum" -> Scalar("red")
      [] T.k = "optional" -> Good(T.elem)
      [] T.k = "vector" -> SeqNode(<<Good(T.elem)>>)
      [] T.k = "map" -> MapNode(<<"a">>, <<Good(T.elem)>>)
      [] T.k = "pair" -> SeqNode(<<Good(T.first), Good(T.second)>>)
      [] T.k = "tuple" -> SeqNode([j \in 1..Len(T.elems) |-> Good(T.elems[j])])
      [] T.k = "struct" ->
            MapNode([j \in 1..Len(T.fields) |-> T.fields[j].fieldName],
                    [j \in 1..Len(T.fields) |-> Good(T.fields[j].type)])

\* Good(T) without its j-th key
DropKey(n, j) ==
    MapNode(SubSeq(n.keys, 1, j - 1) \o SubSeq(n.keys, j + 1, Len(n.keys)),
            SubSeq(n.vals, 1, j - 1) \o SubSeq(n.vals, j + 1, Len(n.vals)))

\* the few documents used for a value nested in a container
Few(T) ==
    CASE T.k \in {"int", "double", "bool", "enum"} -> {Good(T), Scalar("abc")}
      [] T.k = "string" -> {Good(T), SeqNode(<<>>)}
      [] T.k = "optional" -> Few(T.elem) \cup {NullNode}
      [] T.k = "vector" ->
            {SeqNode(<<>>)} \cup {SeqNode(<<d>>) : d \in Few(T.elem)}
      [] T.k = "map" ->
            {MapNode(<<>>, <<>>)} \cup {MapNode(<<"a">>, <<d>>) : d \in Few(T.elem)}
      [] T.k = "pair" ->
            {SeqNode(<<a, b>>) : a \in Few(T.first), b \in Few(T.second)}
      [] T.k = "tuple" -> {Good(T), SeqNode(<<Scalar("abc")>>)}
      [] T.k = "struct" ->
            {Good(T), Scalar("abc")}
                \cup {DropKey(Good(T), j) : j \in 1..Len(T.fields)}

Leaves ==
    {NullNode, Scalar("1"), Scalar("2"), Scalar("abc"), Scalar("true"), Scalar("no"),
     Scalar("1.5"), Scalar("red"), SeqNode(<<>>), MapNode(<<>>, <<>>)}

SeqsUpTo(S, n) == UNION {[1..m -> S] : m \in 0..n}
KeyLists == {ks \in SeqsUpTo({KeyOrder[j] : j \in 1..Len(KeyOrder)}, 2) :
                \A i, j \in 1..Len(ks) : i # j => ks[i] # ks[j]}

\* the documents a field can hold: a sequence-valued field gets every
\* document of its type
FieldDocs(f) ==
    IF f.type.k = "vector" THEN Docs(f.type)
    ELSE IF "attributes" \in DOMAIN f
         THEN CASE f.fieldName = "environment" -> {Scalar("prod"), Scalar("testing")}
                [] f.fieldName = "port" ->
                      {Scalar("443"), Scalar(IntText(bad_port)), Scalar("abc")}
                [] f.fieldName = "version" -> {Scalar("2"), Scalar("abc")}
         ELSE Few(f.type)

\* every way to leave out or fill in each field, as <<keys, vals>>
RecordDocs(fs) ==
    IF fs = <<>> THEN {<<<<>>, <<>>>>}
    ELSE LET rest == RecordDocs(Tail(fs))
         IN  rest \cup
             {<<<<Head(fs).fieldName>> \o r[1], <<d>> \o r[2]>> :
                  d \in FieldDocs(Head(fs)), r \in rest}

\* a key no record of the universe declares (the typo of
\* example_test_validation.cpp)
ExtraKey == "emial"

\* the documents a top-level call is given
Docs(T) ==
    Few(T) \cup Leaves \cup
    CASE T.k = "vector" -> {SeqNode(s) : s \in SeqsUpTo(Few(T.elem), MaxSeqLen)}
      [] T.k = "map" ->
            UNION {{MapNode(ks, vs) : vs \in [1..Len(ks) -> Few(T.elem)]} :
                       ks \in KeyLists}
      [] T.k = "pair" ->
            {SeqNode(s) : s \in SeqsUpTo(Few(T.first) \cup Few(T.second), MaxSeqLen)}
      [] T.k = "tuple" ->
            {SeqNode(<<a, b, c>>) : a \in Few(T.elems[1]), b \in Few(T.elems[2]),
                                    c \in Few(T.elems[3])}
                \cup {SeqNode(<<a, b>>) : a \in Few(T.elems[1]), b \in Few(T.elems[2])}
      [] T.k = "struct" ->
            {MapNode(r[1], r[2]) : r \in RecordDocs(T.fields)}
                \cup {MapNode(r[1] \o <<ExtraKey>>, r[2] \o <<Scalar("abc")>>) :
                          r \in RecordDocs(T.fields)}
      [] OTHER -> {}

\* every object of the record's fields, as a function from field name, its
\* vectors no longer than n
RecordValsUpTo(fs, n) ==
    IF fs = <<>> THEN {<<>>}
    ELSE {(Head(fs).fieldName :> x) @@ r :
              x \in ValsUpTo(Head(fs).type, n), r \in RecordValsUpTo(Tail(fs), n)}

\* objects of type R, its vectors no longer than n
ValsUpTo(R, n) ==
    CASE R.k = "int" -> {0, MaxInt}
      [] R.k = "double" -> {15, 20}
      [] R.k = "bool" -> BOOLEAN
      [] R.k = "string" -> {"abc", "x"}
      [] R.k = "enum" -> {0, 2}
      [] R.k = "optional" -> {<<>>} \cup {<<x>> : x \in ValsUpTo(R.elem, n)}
      [] R.k = "vector" -> SeqsUpTo(ValsUpTo(R.elem, n), n)
      [] R.k = "map" ->
            {<<>>} \cup {<<<<"a", x>>>> : x \in ValsUpTo(R.elem, n)}
                \cup {<<<<"a", x>>, <<"c", y>>>> :
                          x \in ValsUpTo(R.elem, n), y \in ValsUpTo(R.elem, n)}
      [] R.k = "pair" ->
            {<<a, b>> : a \in ValsUpTo(R.first, n), b \in ValsUpTo(R.second, n)}
      [] R.k = "tuple" ->
            {<<a, b, c>> : a \in ValsUpTo(R.elems[1], n), b \in ValsUpTo(R.elems[2], n),
                           c \in ValsUpTo(R.elems[3], n)}
      [] R.k = "struct" -> RecordValsUpTo(R.fields, n)

\* the objects rendered by to()
Vals(R) == ValsUpTo(R, MaxVecLen)
\* the objects a read is given as a target that already holds something
Targets(R) == ValsUpTo(R, 1)

(***************************************************************************)
(* meta_db.h.  A table is a table name and the FieldsMeta of MetaTuple<T>; *)
(* a throw is <<>>, a returned text is <<text>>.                           *)
(***************************************************************************)
\* getFieldName(fieldMeta)
getFieldName(fieldMeta) == getSqlColumn(fieldMeta)
\* what addField prints for the value of a member
SqlValue(t, v) ==
    CASE t.k = "string" -> "'" \o v \o "'"
      [] t.k = "int" -> IntText(v)
      [] OTHER -> ""
RECURSIVE addField(_, _, _)
\* the fold of addField over FieldsMeta from field number i on; the first
\* field is skipped, and first is false at every later field
addField(fields, obj, i) ==
    IF i > Len(fields) THEN ""
    ELSE IF i = 1 THEN addField(fields, obj, 2)
    ELSE ", " \o getFieldName(fields[i]) \o " = "
            \o SqlValue(fields[i].type, obj[fields[i].fieldName])
            \o addField(fields, obj, i + 1)
\* std::to_string of the first member when it is arithmetic
pkValue(fields, obj) ==
    IF fields[1].type.k = "int" THEN SignedText(obj[fields[1].fieldName]) ELSE ""
updateSQL(tbl, obj) ==
    IF tbl.tableName = "" THEN <<>>
    ELSE <<"UPDATE " \o tbl.tableName \o " SET "
             \o addField(tbl.fields, obj, 1)
             \o (IF pkValue(tbl.fields, obj) # ""
                 THEN " WHERE id = " \o pkValue(tbl.fields, obj) ELSE "")>>

(***************************************************************************)
(* Sequences of Builder calls.  open is the stack of the containers that   *)
(* are open, innermost last; a map that has been given a key waits for the *)
(* value of that key.                                                      *)
(***************************************************************************)
Writes == {"writeInt", "writeDouble", "writeBool", "writeString"}
Starts == {"startMap", "startSeq", "startFlowSeq"}
Ends == {"endMap", "endSeq", "endFlowSeq"}
StartOf(end) ==
    CASE end = "endMap" -> "startMap"
      [] end = "endSeq" -> "startSeq"
      [] end = "endFlowSeq" -> "startFlowSeq"
\* a value may arrive: the innermost container is no map, or a keyed map
ValueFits(open) ==
    open = <<>> \/ open[Len(open)].start # "startMap" \/ open[Len(open)].keyed
AfterValue(open) ==
    IF open = <<>> THEN open
    ELSE [open EXCEPT ![Len(open)].keyed = FALSE]
\* the call c keeps the sequence well nested
Fits(open, c) ==
    CASE c.op \in Writes -> ValueFits(open)
      [] c.op \in Starts -> ValueFits(open)
      [] c.op = "key" ->
            /\ open # <<>>
            /\ open[Len(open)].start = "startMap"
            /\ ~open[Len(open)].keyed
      [] c.op \in Ends ->
            /\ open # <<>>
            /\ open[Len(open)].start = StartOf(c.op)
            /\ ~open[Len(open)].keyed
\* the stack after the call c
Opened(open, c) ==
    CASE c.op \in Writes -> AfterValue(open)
      [] c.op \in Starts ->
            Append(AfterValue(open), [start |-> c.op, keyed |-> FALSE])
      [] c.op = "key" -> [open EXCEPT ![Len(open)].keyed = TRUE]
      [] c.op \in Ends -> SubSeq(open, 1, Len(open) - 1)
RECURSIVE OpenStack(_, _)
OpenStack(cs, open) ==
    IF cs = <<>> THEN open ELSE OpenStack(Tail(cs), Opened(open, Head(cs)))
\* every end closes the innermost open start, of its own kind; key is called
\* in a map that is not waiting for a value, and is followed by one value
RECURSIVE Nests(_, _)
Nests(cs, open) ==
    IF cs = <<>> THEN open = <<>>
    ELSE Fits(open, Head(cs)) /\ Nests(Tail(cs), Opened(open, Head(cs)))

(***************************************************************************)
(* YamlBuilder (meta.h).  threw: std::string(indent * 2, ' ') was asked    *)
(* for a negative length, which throws std::length_error.                  *)
(***************************************************************************)
RECURSIVE Spaces(_)
Spaces(n) == IF n <= 0 THEN "" ELSE " " \o Spaces(n - 1)
YamlBuilder ==
    [k |-> "yaml", out |-> "", indent |-> 0, inSequence |-> FALSE,
     inFlowSeq |-> FALSE, firstInFlow |-> TRUE, threw |-> FALSE]
\* writeInt / writeDouble / writeBool / writeString, text is what out << v prints
YamlWrite(b, text) ==
    IF b.inFlowSeq /\ ~b.firstInFlow
    THEN [b EXCEPT !.out = @ \o ", " \o text]
    ELSE IF b.inSequence /\ ~b.inFlowSeq
    THEN IF b.indent < 0 THEN [b EXCEPT !.threw = TRUE]
         ELSE [b EXCEPT !.out = @ \o "\n" \o Spaces(b.indent * 2) \o "- " \o text]
    ELSE [b EXCEPT !.out = @ \o text,
                   !.firstInFlow = IF b.inFlowSeq THEN FALSE ELSE @]
YamlStartSeq(b, elemType) ==
    IF b.inFlowSeq THEN b
    ELSE [b EXCEPT !.indent = @ + 1, !.inSequence = TRUE,
                   !.out = IF elemType = "" THEN @
                           ELSE @ \o "  # seq<" \o elemType \o ">"]
YamlEndSeq(b) ==
    IF b.inFlowSeq THEN b
    ELSE [b EXCEPT !.indent = @ - 1, !.inSequence = FALSE]
YamlStartFlowSeq(b) ==
    [b EXCEPT !.inFlowSeq = TRUE, !.firstInFlow = TRUE, !.out = @ \o "["]
YamlEndFlowSeq(b) ==
    [b EXCEPT !.out = @ \o "]", !.inFlowSeq = FALSE]
YamlStartMap(b, valueType) ==
    IF b.inFlowSeq THEN b
    ELSE [b EXCEPT !.indent = @ + 1,
                   !.out = IF valueType = "" THEN @
                           ELSE @ \o "  # map<string," \o valueType \o ">"]
YamlEndMap(b) ==
    IF b.inFlowSeq THEN b ELSE [b EXCEPT !.indent = @ - 1]
YamlKey(b, key) ==
    IF b.inFlowSeq THEN b
    ELSE IF b.indent < 0 THEN [b EXCEPT !.threw = TRUE]
    ELSE [b EXCEPT !.out = (IF @ # "" THEN @ \o "\n" ELSE @)
                             \o Spaces(b.indent * 2) \o key \o ": "]

(***************************************************************************)
(* JsonBuilder (meta.h).  It does not override startFlowSeq / endFlowSeq,  *)
(* which default to startSeq("") / endSeq().                               *)
(***************************************************************************)
JsonBuilder == [k |-> "json", out |-> "", needsComma |-> FALSE]
comma(b) ==
    [b EXCEPT !.out = IF b.needsComma THEN @ \o "," ELSE @, !.needsComma = TRUE]
JsonWrite(b, text) == [comma(b) EXCEPT !.out = @ \o text]
JsonStartKeepsComma(b, bracket) ==
    [b EXCEPT !.out = (IF b.needsComma THEN @ \o "," ELSE @) \o bracket]
\* startSeq and startMap, by the bracket they open
JsonStart(b, bracket) ==
    [b EXCEPT !.out = (IF b.needsComma THEN @ \o "," ELSE @) \o bracket,
              !.needsComma = FALSE]
\* endSeq and endMap
JsonEnd(b, bracket) == [b EXCEPT !.out = @ \o bracket, !.needsComma = TRUE]
JsonKey(b, key) ==
    [b EXCEPT !.out = (IF b.needsComma THEN @ \o "," ELSE @)
                        \o "\"" \o key \o "\":",
              !.needsComma = FALSE]

(***************************************************************************)
(* CSVBuilder (meta_csv.h).                                                *)
(***************************************************************************)
CSVBuilder ==
    [k |-> "csv", out |-> "", mapDepth |-> 0, firstInCurrentLevel |-> TRUE,
     isActualMap |-> <<>>]
\* writeInt / writeDouble / writeBool; outputSeparator() does nothing
CsvWrite(b, text) == [b EXCEPT !.out = @ \o text]
\* startSeq, endSeq, startFlowSeq, endFlowSeq: the bracket alone
CsvBracket(b, bracket) == [b EXCEPT !.out = @ \o bracket]
CsvStartMap(b) ==
    [b EXCEPT !.mapDepth = @ + 1,
              !.isActualMap = Append(@, FALSE),
              !.firstInCurrentLevel = TRUE,
              !.out = IF b.mapDepth + 1 > 1 THEN @ \o "{" ELSE @]
CsvEndMap(b) ==
    [b EXCEPT !.out = IF b.mapDepth > 1 THEN @ \o "}" ELSE @,
              !.mapDepth = @ - 1,
              !.isActualMap = SubSeq(@, 1, Len(@) - 1)]
CsvKey(b, key) ==
    IF b.mapDepth = 1
    THEN [b EXCEPT !.out = IF b.firstInCurrentLevel THEN @ ELSE @ \o ",",
                   !.firstInCurrentLevel = FALSE]
    ELSE IF b.mapDepth > 1
    THEN [b EXCEPT !.isActualMap[b.mapDepth] = TRUE,
                   !.out = (IF b.firstInCurrentLevel THEN @ ELSE @ \o ";")
                             \o key \o "=",
                   !.firstInCurrentLevel = FALSE]
    ELSE b

(***************************************************************************)
(* The virtual call c on the builder b.                                    *)
(***************************************************************************)
Invoke(b, c) ==
    CASE b.k = "yaml" ->
            (CASE c.op \in Writes -> YamlWrite(b, ScalarText(c))
               [] c.op = "startSeq" -> YamlStartSeq(b, c.arg)
               [] c.op = "endSeq" -> YamlEndSeq(b)
               [] c.op = "startFlowSeq" -> YamlStartFlowSeq(b)
               [] c.op = "endFlowSeq" -> YamlEndFlowSeq(b)
               [] c.op = "startMap" -> YamlStartMap(b, c.arg)
               [] c.op = "endMap" -> YamlEndMap(b)
               [] c.op = "key" -> YamlKey(b, c.arg))
      [] b.k = "json" ->
            (CASE c.op = "writeString" -> JsonWrite(b, "\"" \o c.arg \o "\"")
               [] c.op \in Writes -> JsonWrite(b, ScalarText(c))
               [] c.op \in {"startSeq", "startFlowSeq"} -> JsonStart(b, "[")
               [] c.op \in {"endSeq", "endFlowSeq"} -> JsonEnd(b, "]")
               [] c.op = "startMap" -> JsonStart(b, "{")
               [] c.op = "endMap" -> JsonEnd(b, "}")
               [] c.op = "key" -> JsonKey(b, c.arg))
      [] b.k = "csv" ->
            (CASE c.op = "writeString" -> CsvWrite(b, "\"" \o c.arg \o "\"")
               [] c.op \in Writes -> CsvWrite(b, ScalarText(c))
               [] c.op \in {"startSeq", "startFlowSeq"} -> CsvBracket(b, "[")
               [] c.op \in {"endSeq", "endFlowSeq"} -> CsvBracket(b, "]")
               [] c.op = "startMap" -> CsvStartMap(b)
               [] c.op = "endMap" -> CsvEndMap(b)
               [] c.op = "key" -> CsvKey(b, c.arg))

(***************************************************************************)
(* State: the call's inputs, and what the last call returned.              *)
(***************************************************************************)
VARIABLES
    T,       \* the type the call is instantiated with
    doc,     \* the document handed to a parse call
    target,  \* the object handed to a call: read by to(), written by from()
    pc,      \* "input", "rendered" (to() has run) or "done"
    api,     \* the function that ran last
    calls,   \* the Builder calls issued by to()
    res,     \* the ValidationResult returned
    obj,     \* the target object as the call left it
    value,   \* the optional returned by an entry point: <<>> or <<object>>
    decl,    \* a declaration: of a field, of an enum mapping, of a validator
    fld,     \* the Field descriptor constructed from decl
    op,      \* the last call made on the descriptor, registry or validator
    ret,     \* what that call returned
    plan,    \* the calls a to() is about to make on a builder, or <<>>
    trace,   \* the calls made on the builder so far
    b        \* the builder: its kind and its members

callVars == <<T, doc, target, pc, api, calls, res, obj, value, bucketOrder>>
metaVars == <<decl, fld, op, ret>>
builderVars == <<plan, trace, b>>
vars == <<callVars, metaVars, builderVars>>

\* nothing is declared, constructed or called
Idle == [name |-> "none"]

Init ==
    /\ T \in Types
    /\ bucketOrder \in (IF MentionsEnum(T) THEN Perms(Len(Color.mapping))
                        ELSE {[j \in 1..Len(Color.mapping) |-> j]})
    /\ \/ doc \in Docs(T) \cup {Malformed} /\ target = Default(T)
       \/ doc \in Few(T) \cup {NullNode} /\ target \in Targets(T)
       \/ doc = NullNode /\ target \in Vals(T)
    /\ pc = "input"
    /\ api = "none"
    /\ calls = <<>>
    /\ res = ValidationResult
    /\ obj = target
    /\ value = <<>>
    /\ decl = Idle /\ fld = Idle /\ op = Idle /\ ret = Idle
    /\ plan = <<>> /\ trace = <<>> /\ b = Idle

\* a dispatcher function of meta.h called on (target, node)
From ==
    /\ pc = "input" /\ doc # Malformed
    /\ LET r == from(T, target, doc)
       IN  res' = r.res /\ obj' = r.obj
    /\ value' = <<>>
    /\ api' = "from" /\ pc' = "done"
    /\ UNCHANGED <<T, doc, target, calls, bucketOrder>>
    /\ UNCHANGED <<metaVars, builderVars>>

\* reifyFromYaml<T>(yaml)
ReifyFromYaml ==
    /\ pc = "input"
    /\ LET r == reifyFromYaml(T, doc)
       IN  res' = r.res /\ value' = r.value
    /\ obj' = Default(T)
    /\ api' = "reifyFromYaml" /\ pc' = "done"
    /\ UNCHANGED <<T, doc, target, calls, bucketOrder>>
    /\ UNCHANGED <<metaVars, builderVars>>

\* a from() of meta_yaml.h called on (target, node)
YFrom ==
    /\ pc = "input" /\ doc # Malformed
    /\ LET r == yFrom(T, target, doc)
       IN  res' = r.res /\ obj' = r.obj
    /\ value' = <<>>
    /\ api' = "yFrom" /\ pc' = "done"
    /\ UNCHANGED <<T, doc, target, calls, bucketOrder>>
    /\ UNCHANGED <<metaVars, builderVars>>

\* fromYaml<T>(yaml) of meta_yaml.h
FromYaml ==
    /\ pc = "input"
    /\ LET r == fromYaml(T, doc)
       IN  res' = r.res /\ value' = r.value
    /\ obj' = Default(T)
    /\ api' = "fromYaml" /\ pc' = "done"
    /\ UNCHANGED <<T, doc, target, calls, bucketOrder>>
    /\ UNCHANGED <<metaVars, builderVars>>

\* to(target, &builder), the first half of a round trip
To ==
    /\ pc = "input" /\ target \in Vals(T)
    /\ calls' = to(T, target)
    /\ api' = "to" /\ pc' = "rendered"
    /\ UNCHANGED <<T, doc, target, res, obj, value, bucketOrder>>
    /\ UNCHANGED <<metaVars, builderVars>>

\* reifyFromYaml<T>(node) on the tree the rendered calls describe
ReadBack ==
    /\ pc = "rendered"
    /\ LET r == reifyFromYaml(T, TreeOf(calls))
       IN  res' = r.res /\ value' = r.value
    /\ obj' = Default(T)
    /\ api' = "readBack" /\ pc' = "done"
    /\ UNCHANGED <<T, doc, target, calls, bucketOrder>>
    /\ UNCHANGED <<metaVars, builderVars>>

Next == From \/ ReifyFromYaml \/ YFrom \/ FromYaml \/ To \/ ReadBack

Spec == Init /\ [][Next]_vars

(***************************************************************************)
(* Declarations and the calls made on them: field descriptors (field.h,    *)
(* meta.h, meta_yaml.h), the enum registry, the validators.                *)
(***************************************************************************)
MaxEnumLen == 2

RECURSIVE Sublists(_)
Sublists(s) ==
    IF s = <<>> THEN {<<>>}
    ELSE LET r == Sublists(Tail(s)) IN r \cup {<<Head(s)>> \o t : t \in r}
\* the attributes a MakeField<&Car::maker>("maker", ...) may be given
CarAttributes ==
    <<Props(Serializable), SqlColumn("maker_name"), CsvColumn("Maker"),
      JsonColumn("makerName"), Description("Car manufacturer")>>
AttrKinds ==
    {"Props", "SqlColumn", "CsvColumn", "JsonColumn", "Description", "Whitelist"}
MemberTypes == {StringT, IntT, OptionalT(StringT), OptionalT(IntT)}
\* args: the attributes (field.h) or the explicit requirement, if any
FieldDecls ==
    {[name |-> "field", lib |-> "field.h", fieldName |-> "maker",
      type |-> t, args |-> a] : t \in MemberTypes, a \in Sublists(CarAttributes)}
    \cup {[name |-> "field", lib |-> l, fieldName |-> "maker",
           type |-> t, args |-> a] :
             l \in {"meta.h", "meta_yaml.h"}, t \in MemberTypes,
             a \in {<<>>, <<Required>>, <<Optional>>}}
EnumNames == {"red", "green", "blue"}
EnumPairs == {<<e, n>> : e \in 0..MaxInt, n \in EnumNames}
EnumDecls ==
    {[name |-> "enum", mapping |-> m] :
        m \in {Color.mapping} \cup UNION {[1..n -> EnumPairs] : n \in 0..MaxEnumLen}}
Texts == {"", "a", "ab", "abc", "abcd"}
Validators ==
    {BoundsCheck(lo, hi) : lo \in (0 - 1)..MaxInt, hi \in (0 - 1)..MaxInt}
    \cup {StringLength(lo, hi) : lo \in 0..MaxInt, hi \in 0..MaxInt}
    \cup {Whitelist(allowed_envs, "string"), Whitelist(allowed_ports, "int"),
          Whitelist(allowed_versions, "double")}
ValidatorDecls == {[name |-> "validator", attr |-> a] : a \in Validators}
\* the values a validator of that kind is called on
ValuesFor(a) ==
    CASE a.attr = "BoundsCheck" -> (0 - 2)..(MaxInt + 1)
      [] a.attr = "StringLength" -> Texts
      [] a.kind = "string" -> {"dev", "prod", "testing", ""}
      [] a.kind = "int" -> {80, 8443, bad_port, 0}
      [] OTHER -> {10, 25, 30}

\* the fields a MetaTuple<T>::FieldsMeta is made of
TableFields ==
    {MakeField("id", IntT, <<>>),
     MakeField("name", StringT, <<SqlColumn("full_name")>>),
     MakeField("age", IntT, <<>>)}
MaxFields == 3
TableDecls ==
    {[name |-> "table", tableName |-> t, fields |-> fs] :
        t \in {"users", ""},
        fs \in {f \in UNION {[1..n -> TableFields] : n \in 1..MaxFields} :
                  \A i, j \in 1..Len(f) : i # j => f[i] # f[j]}}
\* the objects of a table's type
TableObjects(tbl) ==
    {[id |-> i, name |-> n, age |-> 7] : i \in {1, 7}, n \in {"x", "y"}}

MetaInit ==
    /\ T = IntT /\ doc = NullNode /\ target = 0 /\ pc = "meta"
    /\ api = "none" /\ calls = <<>> /\ res = ValidationResult
    /\ obj = 0 /\ value = <<>>
    /\ bucketOrder = [j \in 1..Len(Color.mapping) |-> j]
    /\ decl \in FieldDecls \cup EnumDecls \cup ValidatorDecls \cup TableDecls
    /\ fld = Idle /\ op = Idle /\ ret = Idle
    /\ plan = <<>> /\ trace = <<>> /\ b = Idle

\* field<MemberPtr>(name, attrs...) of field.h
FieldOfFieldH ==
    /\ decl.name = "field" /\ decl.lib = "field.h" /\ op.name = "none"
    /\ fld' = MakeField(decl.fieldName, decl.type, decl.args)
    /\ op' = [name |-> "Field"]
    /\ UNCHANGED <<decl, ret, callVars, builderVars>>

\* Field<MemberPtr>(name) or Field<MemberPtr>(name, desc, req) of meta.h
FieldOfMetaH ==
    /\ decl.name = "field" /\ decl.lib = "meta.h" /\ op.name = "none"
    /\ fld' = IF decl.args = <<>> THEN FieldFromName(decl.fieldName, decl.type)
              ELSE Field(decl.fieldName, decl.args[1], decl.type)
    /\ op' = [name |-> "Field"]
    /\ UNCHANGED <<decl, ret, callVars, builderVars>>

\* Field<MemberPtr>(name) or Field<MemberPtr>(name, req) of meta_yaml.h
FieldOfMetaYamlH ==
    /\ decl.name = "field" /\ decl.lib = "meta_yaml.h" /\ op.name = "none"
    /\ fld' = IF decl.args = <<>> THEN FieldFromName(decl.fieldName, decl.type)
              ELSE Field(decl.fieldName, decl.args[1], decl.type)
    /\ op' = [name |-> "Field"]
    /\ UNCHANGED <<decl, ret, callVars, builderVars>>

Constructed == decl.name = "field" /\ decl.lib = "field.h" /\ op.name # "none"

HasAttribute ==
    /\ Constructed
    /\ \E Attr \in AttrKinds :
          /\ op' = [name |-> "hasAttribute", Attr |-> Attr]
          /\ ret' = hasAttribute(fld, Attr)
    /\ UNCHANGED <<decl, fld, callVars, builderVars>>

GetAttribute ==
    /\ Constructed
    /\ \E Attr \in AttrKinds :
          /\ op' = [name |-> "getAttribute", Attr |-> Attr]
          /\ ret' = getAttribute(fld, Attr)
    /\ UNCHANGED <<decl, fld, callVars, builderVars>>

GetProps ==
    /\ Constructed
    /\ op' = [name |-> "getProps"]
    /\ ret' = getProps(fld)
    /\ UNCHANGED <<decl, fld, callVars, builderVars>>

GetSqlColumn ==
    /\ Constructed
    /\ op' = [name |-> "getSqlColumn"]
    /\ ret' = getSqlColumn(fld)
    /\ UNCHANGED <<decl, fld, callVars, builderVars>>

GetCsvColumn ==
    /\ Constructed
    /\ op' = [name |-> "getCsvColumn"]
    /\ ret' = getCsvColumn(fld)
    /\ UNCHANGED <<decl, fld, callVars, builderVars>>

GetJsonProperty ==
    /\ Constructed
    /\ op' = [name |-> "getJsonProperty"]
    /\ ret' = getJsonProperty(fld)
    /\ UNCHANGED <<decl, fld, callVars, builderVars>>

\* EnumTraitsAuto<E>::toString(e)
EnumToString ==
    /\ decl.name = "enum"
    /\ \E e \in 0..(MaxInt + 1) :
          /\ op' = [name |-> "toString", e |-> e]
          /\ ret' = toString(decl.mapping, e)
    /\ UNCHANGED <<decl, fld, callVars, builderVars>>

\* EnumTraitsAuto<E>::fromString(s)
EnumFromString ==
    /\ decl.name = "enum"
    /\ \E s \in EnumNames \cup {"purple", ""} :
          /\ op' = [name |-> "fromString", s |-> s]
          /\ ret' = fromString(decl.mapping, s)
    /\ UNCHANGED <<decl, fld, callVars, builderVars>>

\* enumValues<E>()
EnumValues ==
    /\ decl.name = "enum"
    /\ op' = [name |-> "enumValues"]
    /\ ret' = enumValues(decl.mapping)
    /\ UNCHANGED <<decl, fld, callVars, builderVars>>

\* Attr::validate(value, error) on a caller's error string
Validate ==
    /\ decl.name = "validator"
    /\ \E v \in ValuesFor(decl.attr), error \in {"", "stale"} :
          LET r == validate(decl.attr, v)
          IN  /\ op' = [name |-> "validate", value |-> v, error |-> error]
              /\ ret' = [ret |-> r = <<>>,
                         error |-> IF r = <<>> THEN error ELSE r[1]]
    /\ UNCHANGED <<decl, fld, callVars, builderVars>>

\* updateSQL<T>(obj)
UpdateSQL ==
    /\ decl.name = "table"
    /\ \E o \in TableObjects(decl) :
          /\ op' = [name |-> "updateSQL", obj |-> o]
          /\ ret' = updateSQL(decl, o)
    /\ UNCHANGED <<decl, fld, callVars, builderVars>>

MetaNext ==
    \/ FieldOfFieldH \/ FieldOfMetaH \/ FieldOfMetaYamlH
    \/ HasAttribute \/ GetAttribute \/ GetProps
    \/ GetSqlColumn \/ GetCsvColumn \/ GetJsonProperty
    \/ EnumToString \/ EnumFromString \/ EnumValues
    \/ Validate \/ UpdateSQL

MetaSpec == MetaInit /\ [][MetaNext]_vars

(***************************************************************************)
(* A builder driven call by call: by the calls of one to(obj, &builder),   *)
(* or by any well-nested sequence of at most MaxCalls calls.               *)
(***************************************************************************)
MaxCalls == 5

Matrix == VectorT(VectorT(IntT))
PairList == VectorT(PairT(IntT, IntT))
NestedTuple == TupleT(<<IntT, PairT(IntT, IntT), IntT>>)
\* a record row whose second member is a map
Row ==
    StructT(<<Field("a", Required, IntT),
              Field("m", Required, MapT(IntT)),
              Field("c", Required, IntT)>>)
\* the objects handed to toYaml / toJson / toCSV
Rendered ==
    {<<Matrix, v>> : v \in {<<>>, <<<<1>>>>, <<<<1>>, <<2>>>>, <<<<1, 2>>>>,
                            <<<<1, 2>>, <<0>>>>}}
    \cup {<<PairList, v>> : v \in {<<<<1, 2>>>>, <<<<1, 2>>, <<0, 1>>>>}}
    \cup {<<NestedTuple, <<1, <<2, 0>>, 1>>>>}
    \cup {<<PairT(IntT, StringT), <<1, "x">>>>}
    \cup {<<TupleT(<<PairList, IntT>>), <<<<<<1, 2>>>>, 0>>>>}
    \cup {<<Row, [a |-> 1, m |-> m, c |-> 2]>> : m \in {<<>>, <<<<"a", 1>>>>}}
Plans == {to(x[1], x[2]) : x \in Rendered}
\* the calls a caller of the Builder interface chooses from
Alphabet ==
    {Call("writeInt", 1), Call("writeString", "x"), Call("key", "a"),
     Call("startSeq", ""), Call("endSeq", ""), Call("startFlowSeq", ""),
     Call("endFlowSeq", ""), Call("startMap", ""), Call("endMap", "")}

BuilderInit ==
    /\ T = IntT /\ doc = NullNode /\ target = 0 /\ pc = "builder"
    /\ api = "none" /\ calls = <<>> /\ res = ValidationResult
    /\ obj = 0 /\ value = <<>>
    /\ bucketOrder = [j \in 1..Len(Color.mapping) |-> j]
    /\ decl = Idle /\ fld = Idle /\ op = Idle /\ ret = Idle
    /\ plan \in Plans \cup {<<>>}
    /\ trace = <<>>
    /\ b \in {YamlBuilder, JsonBuilder, CSVBuilder}

\* the calls that may come next; none after an exception left the builder
NextCalls ==
    IF b.k = "yaml" /\ b.threw THEN {}
    ELSE IF plan # <<>>
    THEN IF Len(trace) < Len(plan) THEN {plan[Len(trace) + 1]} ELSE {}
    ELSE IF Len(trace) >= MaxCalls THEN {}
    ELSE {c \in Alphabet : Fits(OpenStack(trace, <<>>), c)}
\* writeInt / writeDouble / writeBool / writeString
Write ==
    \E c \in NextCalls :
        /\ c.op \in Writes
        /\ b' = Invoke(b, c)
        /\ trace' = Append(trace, c)
        /\ UNCHANGED <<plan, callVars, metaVars>>

\* startSeq
StartSeq ==
    \E c \in NextCalls :
        /\ c.op = "startSeq"
        /\ b' = Invoke(b, c)
        /\ trace' = Append(trace, c)
        /\ UNCHANGED <<plan, callVars, metaVars>>

\* endSeq
EndSeq ==
    \E c \in NextCalls :
        /\ c.op = "endSeq"
        /\ b' = Invoke(b, c)
        /\ trace' = Append(trace, c)
        /\ UNCHANGED <<plan, callVars, metaVars>>

\* startFlowSeq
StartFlowSeq ==
    \E c \in NextCalls :
        /\ c.op = "startFlowSeq"
        /\ b' = Invoke(b, c)
        /\ trace' = Append(trace, c)
        /\ UNCHANGED <<plan, callVars, metaVars>>

\* endFlowSeq
EndFlowSeq ==
    \E c \in NextCalls :
        /\ c.op = "endFlowSeq"
        /\ b' = Invoke(b, c)
        /\ trace' = Append(trace, c)
        /\ UNCHANGED <<plan, callVars, metaVars>>

\* startMap
StartMap ==
    \E c \in NextCalls :
        /\ c.op = "startMap"
        /\ b' = Invoke(b, c)
        /\ trace' = Append(trace, c)
        /\ UNCHANGED <<plan, callVars, metaVars>>

\* endMap
EndMap ==
    \E c \in NextCalls :
        /\ c.op = "endMap"
        /\ b' = Invoke(b, c)
        /\ trace' = Append(trace, c)
        /\ UNCHANGED <<plan, callVars, metaVars>>

\* key
Key ==
    \E c \in NextCalls :
        /\ c.op = "key"
        /\ b' = Invoke(b, c)
        /\ trace' = Append(trace, c)
        /\ UNCHANGED <<plan, callVars, metaVars>>

BuilderNext ==
    \/ Write \/ StartSeq \/ EndSeq \/ StartFlowSeq \/ EndFlowSeq
    \/ StartMap \/ EndMap \/ Key

BuilderSpec == BuilderInit /\ [][BuilderNext]_vars

(***************************************************************************)
(* Helpers of the properties.                                              *)
(***************************************************************************)
MetaApis == {"from", "reifyFromYaml"}
YamlOnlyApis == {"yFrom", "fromYaml"}
EntryPoints == {"reifyFromYaml", "fromYaml", "readBack"}
Parsed(apis) == pc = "done" /\ api \in apis /\ doc # Malformed

HasKey(n, key) == n.k = "map" /\ \E j \in 1..Len(n.keys) : n.keys[j] = key
FieldNames(R) == {R.fields[j].fieldName : j \in 1..Len(R.fields)}
HasError(r, path, message) ==
    \E j \in 1..Len(r.errors) : r.errors[j] = <<path, message>>

\* the dispatcher of the engine that function a belongs to
Sub(a, R, o, n) == IF a \in YamlOnlyApis THEN yFrom(R, o, n) ELSE from(R, o, n)

RECURSIVE Flatten(_)
Flatten(ss) == IF ss = <<>> THEN <<>> ELSE Head(ss) \o Flatten(Tail(ss))

\* whether the text sub occurs in the text msg
Contains(msg, sub) ==
    \E i \in 1..(Len(msg) - Len(sub) + 1) : SubSeq(msg, i, i + Len(sub) - 1) = sub

\* errs with every path put under prefix
Under(prefix, errs) ==
    [j \in 1..Len(errs) |->
        <<prefix \o (IF errs[j][1] = "" THEN "" ELSE "." \o errs[j][1]), errs[j][2]>>]

(***************************************************************************)
(* C1: every ValidationResult a deserialization function or an entry point *)
(* returns has valid = TRUE exactly when its error list is empty, whatever *)
(* the node and the target type.                                           *)
(***************************************************************************)
C1_ValidIffNoErrors ==
    pc = "done" => (res.valid <=> res.errors = <<>>)

\* fromPair has gathered the errors of two failing positions
C1_Witness ==
    /\ pc = "done" /\ api = "from" /\ T.k = "pair"
    /\ ~res.valid /\ Len(res.errors) = 2

(***************************************************************************)
(* C2: a record read from a map node that has no key for a Required field  *)
(* is invalid and holds the error <<field name, "Missing required field">>.*)
(***************************************************************************)
C2_MissingRequiredField ==
    (Parsed(MetaApis \cup YamlOnlyApis) /\ T.k = "struct" /\ isMap(doc)) =>
        \A j \in 1..Len(T.fields) :
            (T.fields[j].requirement = Required /\ ~HasKey(doc, T.fields[j].fieldName))
                => /\ ~res.valid
                   /\ HasError(res, T.fields[j].fieldName, "Missing required field")

\* User read from a document with id and name but no email
C2_Witness ==
    /\ Parsed({"from"}) /\ T = User
    /\ doc = MapNode(<<"id", "name">>, <<Scalar("1"), Scalar("abc")>>)
    /\ res.errors = <<<<"email", "Missing required field">>>>

(***************************************************************************)
(* C3: fromStruct attempts every field: its error list is, in declaration  *)
(* order, one "Missing required field" per absent Required field and the   *)
(* errors of each present field's read put under the field name, nothing   *)
(* dropped, repeated or reworded.  A record of 3 required fields whose     *)
(* document lacks 2 of them and gives a third one that fails its read      *)
(* yields exactly 3 errors.                                                *)
(***************************************************************************)
\* what field j of record R contributes when engine a reads R from node n
FieldErrors(a, R, o, n, j) ==
    LET f == R.fields[j]
        missing == IF a \in YamlOnlyApis THEN yIsNull(atKey(n, f.fieldName))
                   ELSE ~HasKey(n, f.fieldName)
    IN  IF missing
        THEN IF f.requirement = Required
             THEN <<<<f.fieldName, "Missing required field">>>>
             ELSE <<>>
        ELSE Under(f.fieldName,
                   Sub(a, f.type, o[f.fieldName], atKey(n, f.fieldName)).res.errors)

ThirdOfficeLacksCountry ==
    /\ T = Company /\ isMap(doc) /\ HasKey(doc, "offices")
    /\ LET offices == atKey(doc, "offices")
       IN  /\ isSequence(offices) /\ size(offices) = 3
           /\ isMap(atIndex(offices, 2))
           /\ ~HasKey(atIndex(offices, 2), "country")

C4_PathOfficesIndexCountry ==
    (Parsed(MetaApis \cup YamlOnlyApis) /\ ThirdOfficeLacksCountry) =>
        HasError(res, "offices[2].country", "Missing required field")

(***************************************************************************)
(* C5: an entry point returns a value exactly when the result it returns   *)
(* is valid, and a call that returns no value returns an invalid result    *)
(* with at least one error.                                                *)
(***************************************************************************)
C5_ValueIffValid ==
    (pc = "done" /\ api \in EntryPoints) =>
        /\ (Len(value) = 1) <=> res.valid
        /\ Len(value) = 0 => (~res.valid /\ Len(res.errors) > 0)

\* reifyFromYaml<User> on a document that lacks a field returns no value
C5_Witness ==
    /\ pc = "done" /\ api = "reifyFromYaml" /\ T = User /\ isMap(doc)
    /\ Len(value) = 0 /\ Len(res.errors) > 0

(***************************************************************************)
(* C6: a record read from a map node that has no key for a field whose     *)
(* requirement is Optional gets no error for that field and the field is   *)
(* left as it was (without a value); when every other field is there and   *)
(* reads without error the result is valid.                                *)
(***************************************************************************)
C6_MissingOptionalField ==
    (Parsed({"from", "yFrom"}) /\ T.k = "struct" /\ isMap(doc)) =>
        \A j \in 1..Len(T.fields) :
            (T.fields[j].requirement = Optional /\ ~HasKey(doc, T.fields[j].fieldName))
                => /\ \A e \in 1..Len(res.errors) :
                          /\ res.errors[e][1] # T.fields[j].fieldName
                          /\ \E i \in 1..Len(T.fields) :
                                /\ i # j
                                /\ \E x \in 1..Len(FieldErrors(api, T, target, doc, i)) :
                                      res.errors[e] = FieldErrors(api, T, target, doc, i)[x]
                   /\ obj[T.fields[j].fieldName] = target[T.fields[j].fieldName]
                   /\ (\A i \in 1..Len(T.fields) : i # j =>
                          /\ HasKey(doc, T.fields[i].fieldName)
                          /\ Sub(api, T.fields[i].type, target[T.fields[i].fieldName],
                                 atKey(doc, T.fields[i].fieldName)).res.valid)
                      => res.valid

\* Address read from a document with city and country but no state
C6_Witness ==
    /\ Parsed({"from"}) /\ T = Address /\ target = Default(Address)
    /\ doc = MapNode(<<"city", "country">>, <<Scalar("abc"), Scalar("abc")>>)
    /\ res.valid /\ obj["state"] = <<>>

(***************************************************************************)
(* C7: a record read from a map node that has a key which names no field   *)
(* of the record's metadata is invalid.                                    *)
(***************************************************************************)
C7_ExtraKeyRejected ==
    (Parsed(MetaApis \cup YamlOnlyApis) /\ T.k = "struct" /\ isMap(doc)) =>
        ((\E j \in 1..Len(doc.keys) : doc.keys[j] \notin FieldNames(T)) => ~res.valid)

(***************************************************************************)
(* C8: reading back the tree that to(v) describes returns the value v      *)
(* itself, with a valid result, for every object v of a record type.       *)
(***************************************************************************)
C8_RoundTrip ==
    (pc = "done" /\ api = "readBack" /\ T.k = "struct") =>
        (res.valid /\ value = <<target>>)

(***************************************************************************)
(* C9: fromVector visits every index: the output holds, in input order,    *)
(* the elements whose read succeeds, and the error list holds, in input    *)
(* order, the errors of each element whose read fails, each under "[i]".   *)
(* Of 3 elements of which only the middle one fails, with one error, the   *)
(* result holds exactly 1 error, under [1], and the output 2 elements.     *)
(***************************************************************************)
ElemRead(a, V, n, i) == Sub(a, V.elem, Default(V.elem), n.items[i])
BracketPath(i, f) == "[" \o IntText(i) \o "]" \o (IF f = "" THEN "" ELSE "." \o f)

C9_SequenceElementIsolation ==
    (Parsed({"from", "yFrom"}) /\ T.k = "vector" /\ isSequence(doc)) =>
        LET n == Len(doc.items)
            r(i) == ElemRead(api, T, doc, i)
        IN  /\ obj = Flatten([i \in 1..n |->
                        IF r(i).res.valid THEN <<r(i).obj>> ELSE <<>>])
            /\ res.errors = Flatten([i \in 1..n |->
                        IF r(i).res.valid THEN <<>>
                        ELSE [x \in 1..Len(r(i).res.errors) |->
                                <<BracketPath(i - 1, r(i).res.errors[x][1]),
                                  r(i).res.errors[x][2]>>]])
            /\ ( /\ n = 3 /\ r(1).res.valid /\ r(3).res.valid
                 /\ Len(r(2).res.errors) = 1 )
               => /\ Len(res.errors) = 1
                  /\ res.errors[1][1] = BracketPath(1, r(2).res.errors[1][1])
                  /\ Len(obj) = 2

\* three offices of which the middle one lacks its country
C9_Witness ==
    /\ Parsed({"from"}) /\ T = VectorT(Address)
    /\ doc = SeqNode(<<Good(Address), DropKey(Good(Address), 3), Good(Address)>>)
    /\ res.errors = <<<<"[1].country", "Missing required field">>>>
    /\ Len(obj) = 2

ListsEveryName(msg, mapping) ==
    \A j \in 1..Len(mapping) : Contains(msg, "'" \o mapping[j][2] \o "'")

C11_EnumRejectionListsNames ==
    /\ (Parsed(YamlOnlyApis) /\ T.k = "enum" /\ asString(doc) # <<>>
            /\ fromString(T.mapping, doc.s) = <<>>) =>
          /\ Len(res.errors) = 1
          /\ Contains(res.errors[1][2], doc.s)
          /\ ListsEveryName(res.errors[1][2], T.mapping)
    /\ (Parsed(YamlOnlyApis) /\ T = Paint /\ isMap(doc) /\ HasKey(doc, "name")
            /\ asString(atKey(doc, "name")) # <<>> /\ HasKey(doc, "color")
            /\ asString(atKey(doc, "color")) # <<>>
            /\ fromString(Color.mapping, atKey(doc, "color").s) = <<>>) =>
          /\ Len(res.errors) = 1
          /\ res.errors[1][1] = "color"
          /\ Contains(res.errors[1][2], atKey(doc, "color").s)
          /\ ListsEveryName(res.errors[1][2], Color.mapping)

\* fromYaml<Paint> on a document whose color is no name of Color, with a
\* registry that is not walked in declaration order
C11_Witness ==
    /\ Parsed({"fromYaml"}) /\ T = Paint
    /\ doc = MapNode(<<"name", "color">>, <<Scalar("abc"), Scalar("abc")>>)
    /\ bucketOrder = <<3, 1, 2>>
    /\ res.errors = <<<<"color",
            "Unknown enum value 'abc'. Valid values are: 'blue', 'red', 'green'">>>>

(***************************************************************************)
(* C12: in meta.h, a registered enum read from a string that is none of    *)
(* its registered names yields an error whose message lists every valid    *)
(* name of the enum.                                                       *)
(***************************************************************************)
C12_MetaEnumRejectionListsNames ==
    (Parsed(MetaApis) /\ T.k = "enum" /\ asString(doc) # <<>>
        /\ fromString(T.mapping, doc.s) = <<>>) =>
      /\ ~res.valid
      /\ \E e \in 1..Len(res.errors) : ListsEveryName(res.errors[e][2], T.mapping)

(***************************************************************************)
(* C13: the validators attached to a field are run once the field's        *)
(* type-level read has succeeded: a record whose field carries a Whitelist *)
(* and whose document gives that field a value outside the allowed set is  *)
(* invalid and holds, at the field's path, the error validate() builds.    *)
(* Config's port, whitelisted to 80, 443, 8080, 8443 and given 9999, is    *)
(* reported with a message that lists the allowed set.                     *)
(***************************************************************************)
C13_WhitelistRejected ==
    (Parsed(MetaApis) /\ T.k = "struct" /\ isMap(doc)) =>
        \A j \in 1..Len(T.fields) :
            LET f == T.fields[j]
                r == from(f.type, Default(f.type), atKey(doc, f.fieldName))
            IN  ( /\ "attributes" \in DOMAIN f
                  /\ HasKey(doc, f.fieldName)
                  /\ r.res.valid )
                => \A a \in 1..Len(f.attributes) :
                      validate(f.attributes[a], r.obj) # <<>>
                          => /\ ~res.valid
                             /\ HasError(res, f.fieldName,
                                         validate(f.attributes[a], r.obj)[1])
                             /\ (f.fieldName = "port" /\ r.obj = bad_port) =>
                                   HasError(res, "port",
                                     "Value not in whitelist: {80, 443, 8080, 8443}")

(***************************************************************************)
(* C14: a record read from a node that is not a map (a scalar, a sequence  *)
(* or null) is invalid, whatever the record type, also when every field of *)
(* the record is optional.                                                 *)
(***************************************************************************)
C14_NonMapRecordRejected ==
    (Parsed(MetaApis \cup YamlOnlyApis) /\ T.k = "struct" /\ ~isMap(doc)) =>
        ~res.valid

(***************************************************************************)
(* C15: a primitive read from a node whose coerced read fails returns      *)
(* exactly one error, at the empty path, "Invalid integer", "Invalid       *)
(* double", "Invalid boolean" or "Invalid string", and leaves the target   *)
(* as it was; a read that succeeds stores the node's value, and a double   *)
(* target takes a floating-point node as well as an integer node.          *)
(***************************************************************************)
\* the value the claim expects a node to give a primitive of kind k
CoercedRead(k, n) ==
    CASE k = "int" -> asInt(n)
      [] k = "double" ->
            IF asDouble(n) # <<>> THEN asDouble(n)
            ELSE IF asInt(n) # <<>> THEN <<10 * asInt(n)[1]>>
            ELSE <<>>
      [] k = "bool" -> asBool(n)
      [] k = "string" -> asString(n)
InvalidMessage(k) ==
    CASE k = "int" -> "Invalid integer"
      [] k = "double" -> "Invalid double"
      [] k = "bool" -> "Invalid boolean"
      [] k = "string" -> "Invalid string"

C15_PrimitiveRead ==
    (Parsed({"from", "yFrom"}) /\ T.k \in {"int", "double", "bool", "string"}) =>
        LET v == CoercedRead(T.k, doc)
        IN  IF v = <<>>
            THEN /\ ~res.valid
                 /\ res.errors = <<<<"", InvalidMessage(T.k)>>>>
                 /\ obj = target
            ELSE /\ res.valid /\ res.errors = <<>>
                 /\ obj = v[1]

(***************************************************************************)
(* C16: fromOptional on a null node leaves the target without a value and  *)
(* returns a valid result with no error; on any other node it returns      *)
(* exactly the result of the wrapped type's read, stores the value read    *)
(* when that result is valid and leaves the target as it was when it is    *)
(* not.                                                                    *)
(***************************************************************************)
C16_OptionalRead ==
    (Parsed({"from", "yFrom"}) /\ T.k = "optional") =>
        IF isNull(doc)
        THEN res = ValidationResult /\ obj = <<>>
        ELSE LET r == Sub(api, T.elem, Default(T.elem), doc)
             IN  /\ res = r.res
                 /\ r.res.valid => obj = <<r.obj>>
                 /\ ~r.res.valid => obj = target

\* an optional<int> that holds a value, read from a node that is no integer
C16_Witness ==
    /\ Parsed({"from"}) /\ T = OptionalT(IntT)
    /\ target # <<>> /\ target # <<0>> /\ doc = Scalar("abc")
    /\ res.errors = <<<<"", "Invalid integer">>>> /\ obj = target

(***************************************************************************)
(* C17: fromMap on a node that is not a map returns the single error       *)
(* "Expected map" and leaves the target as it was.  On a map node it       *)
(* visits every key of the document: the output holds exactly the keys     *)
(* whose value reads, each with the value read, and the error list holds,  *)
(* in document order, the errors of every key whose value fails, under the *)
(* key (key, or key.sub-path for an error from deeper down); a key that    *)
(* fails does not keep the keys after it from being read.                  *)
(***************************************************************************)
C17_MapRead ==
    (Parsed({"from", "yFrom"}) /\ T.k = "map") =>
        IF ~isMap(doc)
        THEN /\ ~res.valid
             /\ res.errors = <<<<"", "Expected map">>>>
             /\ obj = target
        ELSE LET n == Len(doc.keys)
                 r(i) == Sub(api, T.elem, Default(T.elem), doc.vals[i])
             IN  /\ \A i \in 1..n :
                        IF r(i).res.valid
                        THEN \E x \in 1..Len(obj) : obj[x] = <<doc.keys[i], r(i).obj>>
                        ELSE \A x \in 1..Len(obj) : obj[x][1] # doc.keys[i]
                 /\ \A x \in 1..Len(obj) : \E i \in 1..n : obj[x][1] = doc.keys[i]
                 /\ res.errors = Flatten([i \in 1..n |->
                        IF r(i).res.valid THEN <<>>
                        ELSE Under(doc.keys[i], r(i).res.errors)])

\* a map of two addresses of which the first lacks its country
C17_Witness ==
    /\ Parsed({"from"}) /\ T = MapT(Address)
    /\ doc = MapNode(<<"a", "b">>, <<DropKey(Good(Address), 3), Good(Address)>>)
    /\ res.errors = <<<<"a.country", "Missing required field">>>>
    /\ Len(obj) = 1 /\ obj[1][1] = "b"

(***************************************************************************)
(* C18: fromTuple on a node that is not a sequence, or whose length is not *)
(* the tuple's arity, returns exactly one error, at the root path, and     *)
(* reads no position.  When the length matches, every position is read in  *)
(* order: each position holds what its own read leaves, and the error list *)
(* holds, in position order, the errors of every failing position under    *)
(* "[i]"; a failing position does not stop the positions after it.         *)
(***************************************************************************)
C18_TupleRead ==
    (Parsed({"from", "yFrom"}) /\ T.k = "tuple") =>
        IF ~isSequence(doc) \/ size(doc) # Len(T.elems)
        THEN /\ ~res.valid
             /\ Len(res.errors) = 1 /\ res.errors[1][1] = ""
             /\ obj = target
        ELSE LET n == Len(T.elems)
                 r(i) == Sub(api, T.elems[i], target[i], doc.items[i])
             IN  /\ \A i \in 1..n : obj[i] = r(i).obj
                 /\ res.errors = Flatten([i \in 1..n |->
                        IF r(i).res.valid THEN <<>>
                        ELSE [x \in 1..Len(r(i).res.errors) |->
                                <<BracketPath(i - 1, r(i).res.errors[x][1]),
                                  r(i).res.errors[x][2]>>]])
                 /\ res.valid <=> \A i \in 1..n : r(i).res.valid

\* a tuple<int, bool, string> whose first and last positions fail
C18_Witness ==
    /\ Parsed({"from"}) /\ T.k = "tuple"
    /\ doc = SeqNode(<<Scalar("abc"), Scalar("true"), SeqNode(<<>>)>>)
    /\ res.errors = <<<<"[0]", "Invalid integer">>, <<"[2]", "Invalid string">>>>
    /\ obj[2] = TRUE

(***************************************************************************)
(* C19: pair deserialization, in meta.h and in meta_yaml.h, reads both     *)
(* positions; when both fail, the result holds every error of the first    *)
(* position and every error of the second one: nothing detected is lost.   *)
(***************************************************************************)
C19_PairKeepsBothErrors ==
    (Parsed({"from", "yFrom"}) /\ T.k = "pair" /\ isSequence(doc) /\ size(doc) = 2) =>
        LET kResult == Sub(api, T.first, target[1], doc.items[1])
            vResult == Sub(api, T.second, target[2], doc.items[2])
            Kept(errs) == \A x \in 1..Len(errs) :
                              \E e \in 1..Len(res.errors) : res.errors[e][2] = errs[x][2]
        IN  /\ obj = <<kResult.obj, vResult.obj>>
            /\ (~kResult.res.valid /\ ~vResult.res.valid) =>
                  /\ ~res.valid
                  /\ Kept(kResult.res.errors) /\ Kept(vResult.res.errors)
                  /\ Len(res.errors) = Len(kResult.res.errors) + Len(vResult.res.errors)

(***************************************************************************)
(* C20: the Builder calls to<T> issues for a record are startMap, then,    *)
(* for each field of T::fields in declaration order and once each,         *)
(* key(fieldName) followed by the calls of that member's own               *)
(* serialization, then endMap; the keys of the map are the field names in  *)
(* declaration order and nothing else.                                     *)
(***************************************************************************)
\* the arguments of the key() calls made directly inside the outermost
\* container of calls, depth being the number of containers open
RECURSIVE TopKeys(_, _)
TopKeys(cs, depth) ==
    IF cs = <<>> THEN <<>>
    ELSE LET c == Head(cs)
         IN  CASE c.op \in {"startMap", "startSeq", "startFlowSeq"} ->
                    TopKeys(Tail(cs), depth + 1)
               [] c.op \in {"endMap", "endSeq", "endFlowSeq"} ->
                    TopKeys(Tail(cs), depth - 1)
               [] c.op = "key" ->
                    (IF depth = 1 THEN <<c.arg>> ELSE <<>>) \o TopKeys(Tail(cs), depth)
               [] OTHER -> TopKeys(Tail(cs), depth)

C20_RecordSerializationOrder ==
    (api \in {"to", "readBack"} /\ T.k = "struct") =>
        /\ Head(calls) = Call("startMap", "")
        /\ calls[Len(calls)] = Call("endMap", "")
        /\ TopKeys(calls, 0) = [j \in 1..Len(T.fields) |-> T.fields[j].fieldName]
        /\ calls = <<Call("startMap", "")>>
                     \o Flatten([j \in 1..Len(T.fields) |->
                            <<Call("key", T.fields[j].fieldName)>>
                                \o to(T.fields[j].type, target[T.fields[j].fieldName])])
                     \o <<Call("endMap", "")>>

\* an Address without a state has been rendered: city, state, country
C20_Witness ==
    /\ pc = "rendered" /\ api = "to" /\ T = Address /\ target["state"] = <<>>
    /\ TopKeys(calls, 0) = <<"city", "state", "country">>
    /\ Len(calls) = 8

(***************************************************************************)
(* Helpers of the properties on declarations.                              *)
(***************************************************************************)
\* the declaration names an attribute of that kind
Attached(K) == \E j \in 1..Len(decl.args) : decl.args[j].attr = K
\* the attribute of that kind the declaration names
Declared(K) == decl.args[CHOOSE j \in 1..Len(decl.args) : decl.args[j].attr = K]
\* no value and no name is declared twice
Distinct(m) ==
    \A i, j \in 1..Len(m) :
        i # j => (m[i][1] # m[j][1] /\ m[i][2] # m[j][2])

(***************************************************************************)
(* C21: a Field descriptor constructed from a name (and attributes) has    *)
(* requirement Optional exactly when its member type is an optional        *)
(* wrapper and Required otherwise, whatever the arguments, for the Field   *)
(* of field.h and for the Field of meta.h.                                 *)
(***************************************************************************)
C21_RequirementDerived ==
    (decl.name = "field" /\ decl.lib \in {"field.h", "meta.h"}
        /\ op.name # "none") =>
      (fld.requirement = Optional <=> decl.type.k = "optional")

(***************************************************************************)
(* C22: hasAttribute<K>() is true exactly when an attribute of kind K was  *)
(* attached; getAttribute<K>() is null when none was; getProps() is None   *)
(* without Props; getSqlColumn / getCsvColumn / getJsonProperty return the *)
(* attached override name, else the plain field name.                      *)
(***************************************************************************)
C22_AttributeLookup ==
    Constructed =>
      /\ op.name = "hasAttribute" => (ret <=> Attached(op.Attr))
      /\ op.name = "getAttribute" =>
            ret = IF Attached(op.Attr) THEN <<Declared(op.Attr)>> ELSE <<>>
      /\ op.name = "getProps" =>
            ret = IF Attached("Props") THEN Declared("Props").value ELSE None
      /\ op.name = "getSqlColumn" =>
            ret = IF Attached("SqlColumn") THEN "maker_name" ELSE "maker"
      /\ op.name = "getCsvColumn" =>
            ret = IF Attached("CsvColumn") THEN "Maker" ELSE "maker"
      /\ op.name = "getJsonProperty" =>
            ret = IF Attached("JsonColumn") THEN "makerName" ELSE "maker"

\* a field with a CSV override but no SQL override is asked for its SQL column
C22_Witness ==
    /\ Constructed
    /\ decl.args = <<CsvColumn("Maker"), Description("Car manufacturer")>>
    /\ op.name = "getSqlColumn" /\ ret = "maker"

(***************************************************************************)
(* C23: enumValues yields the value of every declared pair in declaration  *)
(* order; when the declared values and names are distinct,                 *)
(* fromString(toString(e)) = e and toString(fromString(s)) = s; toString   *)
(* of an undeclared value is "" and fromString of an undeclared name is    *)
(* absent.                                                                 *)
(***************************************************************************)
C23_EnumRegistry ==
    decl.name = "enum" =>
      LET m == decl.mapping
      IN  /\ op.name = "enumValues" =>
                /\ Len(ret) = Len(m)
                /\ \A j \in 1..Len(m) : ret[j] = m[j][1]
          /\ op.name = "toString" =>
                IF \E j \in 1..Len(m) : m[j][1] = op.e
                THEN Distinct(m) =>
                        /\ \E j \in 1..Len(m) : m[j] = <<op.e, ret>>
                        /\ fromString(m, ret) = <<op.e>>
                ELSE ret = ""
          /\ op.name = "fromString" =>
                IF \E j \in 1..Len(m) : m[j][2] = op.s
                THEN Distinct(m) =>
                        /\ \E j \in 1..Len(m) : m[j] = <<ret[1], op.s>>
                        /\ toString(m, ret[1]) = op.s
                ELSE ret = <<>>

\* the second name of a two-pair registry is looked up
C23_Witness ==
    /\ decl.name = "enum"
    /\ decl.mapping = <<<<1, "red">>, <<0, "green">>>>
    /\ op.name = "fromString" /\ op.s = "green" /\ ret = <<0>>

C26_CallsWellNested ==
    pc = "rendered" => Nests(calls, <<>>)

\* a record with a vector of records, one of them without its optional member
C26_Witness ==
    /\ pc = "rendered" /\ T = Company
    /\ \E j \in 1..Len(calls) : calls[j] = Call("writeString", "null")
    /\ \E j \in 1..Len(calls) : calls[j].op = "startSeq"
    /\ Len(SelectSeq(calls, LAMBDA c : c.op = "startMap")) > 1

(***************************************************************************)
(* Helpers of the properties on builders.                                  *)
(***************************************************************************)
\* how often the text sub occurs in s
CountSub(s, sub) ==
    Cardinality({i \in 1..(Len(s) - Len(sub) + 1) :
                    SubSeq(s, i, i + Len(sub) - 1) = sub})
EndsWith(s, suf) ==
    Len(s) >= Len(suf) /\ SubSeq(s, Len(s) - Len(suf) + 1, Len(s)) = suf
\* the open containers after the first n calls
OpenAt(n) == OpenStack(SubSeq(trace, 1, n), <<>>)
\* the planned to() has made all its calls
Done == plan # <<>> /\ Len(trace) = Len(plan)
\* the last call wrote a scalar into a block sequence: the innermost open
\* container is a startSeq and no flow sequence is open around it
WroteIntoBlockSeq ==
    /\ trace # <<>> /\ trace[Len(trace)].op \in Writes
    /\ LET open == OpenAt(Len(trace) - 1)
       IN  /\ open # <<>> /\ open[Len(open)].start = "startSeq"
           /\ \A j \in 1..Len(open) : open[j].start # "startFlowSeq"
\* the text of a pair or tuple of scalars, pairs and tuples as an inline
\* sequence: brackets around the elements' texts joined by ", "
RECURSIVE FlowText(_, _)
RECURSIVE FlowJoin(_, _, _)
FlowJoin(ts, vs, i) ==
    IF i > Len(ts) THEN ""
    ELSE (IF i = 1 THEN "" ELSE ", ") \o FlowText(ts[i], vs[i])
            \o FlowJoin(ts, vs, i + 1)
FlowText(R, v) ==
    CASE R.k = "int" -> IntText(v)
      [] R.k = "string" -> v
      [] R.k = "pair" -> "[" \o FlowJoin(<<R.first, R.second>>, v, 1) \o "]"
      [] R.k = "tuple" -> "[" \o FlowJoin(R.elems, v, 1) \o "]"
RECURSIVE Flowable(_)
Flowable(R) ==
    CASE R.k \in {"int", "string"} -> TRUE
      [] R.k = "pair" -> Flowable(R.first) /\ Flowable(R.second)
      [] R.k = "tuple" -> \A i \in 1..Len(R.elems) : Flowable(R.elems[i])
      [] OTHER -> FALSE
\* the inline texts of the pairs and tuples that occur in the object v
RECURSIVE Brackets(_, _)
Brackets(R, v) ==
    CASE R.k \in {"pair", "tuple"} /\ Flowable(R) -> {FlowText(R, v)}
      [] R.k = "pair" -> Brackets(R.first, v[1]) \cup Brackets(R.second, v[2])
      [] R.k = "tuple" ->
            UNION {Brackets(R.elems[i], v[i]) : i \in 1..Len(R.elems)}
      [] R.k = "vector" -> UNION {Brackets(R.elem, v[i]) : i \in 1..Len(v)}
      [] OTHER -> {}
\* the number of places where an item follows an earlier item of the same
\* container (or of the top level); in a map the items are the keys
RECURSIVE Gaps(_, _)
Gaps(cs, counts) ==
    IF cs = <<>> THEN 0
    ELSE LET c == Head(cs)
             top == counts[Len(counts)]
             isItem == IF top.map THEN c.op = "key"
                       ELSE c.op \in Writes \cup Starts
             counted == IF isItem
                        THEN [counts EXCEPT ![Len(counts)].n = @ + 1]
                        ELSE counts
             next == CASE c.op \in Starts ->
                            Append(counted, [map |-> c.op = "startMap", n |-> 0])
                       [] c.op \in Ends -> SubSeq(counted, 1, Len(counted) - 1)
                       [] OTHER -> counted
         IN  (IF isItem /\ top.n > 0 THEN 1 ELSE 0) + Gaps(Tail(cs), next)
SiblingGaps == Gaps(trace, <<[map |-> FALSE, n |-> 0]>>)
\* the trace is one record row: a top-level startMap not followed, after
\* its endMap, by anything else
RowTrace ==
    /\ trace # <<>> /\ trace[1].op = "startMap"
    /\ \A j \in 1..(Len(trace) - 1) : OpenAt(j) # <<>>
\* the key calls made for the fields of the row
RowKeys == {j \in 1..Len(trace) : trace[j].op = "key" /\ Len(OpenAt(j - 1)) = 1}

(***************************************************************************)
(* C24: YamlBuilder tracks the innermost open container across nesting: a  *)
(* scalar written into a block sequence is emitted as an item ("- "), also *)
(* after endSeq closed a nested sequence; when every start has been        *)
(* matched by its end, indent is back at its initial value; a vector of    *)
(* vectors renders with an item marker (or bracket) for every inner vector *)
(* and every number.                                                       *)
(***************************************************************************)
C24_YamlTracksNesting ==
    (b # Idle /\ b.k = "yaml" /\ ~b.threw) =>
      /\ WroteIntoBlockSeq =>
            EndsWith(b.out, "- " \o ScalarText(trace[Len(trace)]))
      /\ OpenAt(Len(trace)) = <<>> => b.indent = 0
      /\ (Done /\ plan[1] = Call("startSeq", "vector")) =>
            CountSub(b.out, "- ") + CountSub(b.out, "[")
              >= Len(SelectSeq(plan, LAMBDA c : c.op = "startSeq")) - 1
                   + Len(SelectSeq(plan, LAMBDA c : c.op \in Writes))

(***************************************************************************)
(* C25: YamlBuilder renders every tuple and pair as one bracketed inline   *)
(* sequence with ", " between its elements, whatever the context: as an    *)
(* element of a block sequence, or nested in another tuple.                *)
(***************************************************************************)
C25_YamlTupleInline ==
    (b # Idle /\ b.k = "yaml" /\ ~b.threw /\ Done) =>
      \A x \in Rendered :
          plan = to(x[1], x[2]) =>
              \A text \in Brackets(x[1], x[2]) : Contains(b.out, text)

(***************************************************************************)
(* C27: for any well-nested sequence of calls JsonBuilder writes a comma   *)
(* exactly between siblings: one for every item that follows another item  *)
(* of its container, and none right after '[', '{' or the ':' of a key,    *)
(* right before ']' or '}', or at the start of the output.                 *)
(***************************************************************************)
C27_JsonCommas ==
    (b # Idle /\ b.k = "json") =>
      /\ CountSub(b.out, ",") = SiblingGaps
      /\ \A bad \in {"[,", "{,", ":,", ",]", ",}", ",,"} : ~Contains(b.out, bad)
      /\ (b.out # "" => SubSeq(b.out, 1, 1) # ",")

\* a map entry is followed by a second entry whose value is a sequence of two
C27_Witness ==
    /\ b # Idle /\ b.k = "json" /\ Done
    /\ plan = to(Row, [a |-> 1, m |-> <<<<"a", 1>>>>, c |-> 2])
    /\ b.out = "{\"a\":1,\"m\":{\"a\":1},\"c\":2}"

(***************************************************************************)
(* C28: CSVBuilder separates the top-level fields of a record row with     *)
(* exactly one comma between every two consecutive fields, whatever the    *)
(* field values are (also an empty nested map or record); and after any    *)
(* well-nested sequence of calls the length of isActualMap equals          *)
(* mapDepth.                                                               *)
(***************************************************************************)
C28_CsvRowCommas ==
    (b # Idle /\ b.k = "csv") =>
      /\ Len(b.isActualMap) = b.mapDepth
      /\ RowTrace =>
            CountSub(b.out, ",")
              = (IF RowKeys = {} THEN 0 ELSE Cardinality(RowKeys) - 1)

(***************************************************************************)
(* C29: updateSQL treats the first declared field as the primary key and   *)
(* leaves it out of the SET list; the remaining fields follow in           *)
(* declaration order as "column = value", separated by ", " with no        *)
(* separator before the first of them; the statement ends with a WHERE     *)
(* clause on the value of the primary key.                                 *)
(***************************************************************************)
RECURSIVE SetList(_, _, _)
\* "column = value" of the fields from number i on, ", " between them
SetList(fields, o, i) ==
    IF i > Len(fields) THEN ""
    ELSE (IF i > 2 THEN ", " ELSE "")
            \o getSqlColumn(fields[i]) \o " = "
            \o (IF fields[i].type.k = "string"
                THEN "'" \o o[fields[i].fieldName] \o "'"
                ELSE IntText(o[fields[i].fieldName]))
            \o SetList(fields, o, i + 1)
C29_UpdateSqlSetList ==
    (decl.name = "table" /\ op.name = "updateSQL" /\ ret # <<>>) =>
      LET fs == decl.fields
          pk == op.obj[fs[1].fieldName]
          head == "UPDATE " \o decl.tableName \o " SET " \o SetList(fs, op.obj, 2)
      IN  /\ Len(ret[1]) >= Len(head)
          /\ SubSeq(ret[1], 1, Len(head)) = head
          /\ Contains(ret[1], " WHERE ")
          /\ EndsWith(ret[1], IF fs[1].type.k = "string"
                              THEN "= '" \o pk \o "'" ELSE "= " \o IntText(pk))
====
